---- MODULE Spec2Model ----
(***************************************************************************)
(* Candidate scoring engine of the team-shortlisting application           *)
(* (src/src/utils/storage.ts, calculateCandidateScores).                   *)
(*                                                                         *)
(* Strings are sequences of one-character strings, numbers are exact       *)
(* rationals <<numerator, denominator>> in lowest terms.  JavaScript       *)
(* numbers are IEEE-754 binary64; the two places where binary64 differs    *)
(* from exact arithmetic in a way the program can observe (Math.round of a *)
(* value that is exactly k + 1/2, and the test |a - b| < 0.1 on scores one *)
(* tenth apart) are modelled by the tables Binary64ShortOfHalf and         *)
(* Binary64TenthGapBelow.                                                  *)
(***************************************************************************)
EXTENDS Integers, Sequences, FiniteSets, TLC

VARIABLES candidates, skillKeywords, experienceKeywords, educationKeywords,
          result, pc,
          cache, now, indicesToFill,
          teamSize, shortlistedTeam, step, localStorage, pendingSaves,
          inputValue, isOpen, activeRoleIndex,
          fullData, batchSize, loadedData, currentIndex, timer,
          pendingEffects, replacements

\* Arguments, return value and outcome of the last call.
callVars == <<candidates, skillKeywords, experienceKeywords,
              educationKeywords, result, pc>>

\* useCandidateScoreCache: the Map behind cache.current, Date.now() and the
\* positions the last call had to score.
cacheVars == <<cache, now, indicesToFill>>

\* AppProvider's teamSize and shortlistedTeam, ShortlistPage's step, the two
\* items of localStorage, the values of the idle callbacks that have not
\* written yet, the text of TeamSizeSetup's input, whether TeamSizeModal
\* is open and TeamBuilder's activeRoleIndex.
teamVars == <<teamSize, shortlistedTeam, step, localStorage, pendingSaves,
              inputValue, isOpen, activeRoleIndex>>

\* useProgressiveLoader: its arguments fullData and batchSize, its state
\* loadedData and currentIndex, the pending setTimeout callback with the
\* currentIndex and fullData of the render that set it, whether the effects
\* of the last render have yet to run, and the number of times fullData was
\* replaced.
loaderVars == <<fullData, batchSize, loadedData, currentIndex, timer,
                pendingEffects, replacements>>

vars == <<candidates, skillKeywords, experienceKeywords, educationKeywords,
          result, pc, cache, now, indicesToFill,
          teamSize, shortlistedTeam, step, localStorage, pendingSaves,
          inputValue, isOpen, activeRoleIndex,
          fullData, batchSize, loadedData, currentIndex, timer,
          pendingEffects, replacements>>

(***************************************************************************)
(* Bounds of the model.                                                    *)
(***************************************************************************)
MaxCandidates == 2
\* Progressive loader: the longest fullData, the largest batchSize and the
\* number of times fullData is replaced.
MaxListLen == 3
MaxBatchSize == 2
MaxReplacements == 2
MaxKeywords == 5

(***************************************************************************)
(* Rational arithmetic.                                                    *)
(***************************************************************************)
RECURSIVE GCD(_, _)
GCD(a, b) == IF b = 0 THEN a ELSE GCD(b, a % b)

Abs(n) == IF n < 0 THEN -n ELSE n

Rat(n, d) ==
    LET g == GCD(Abs(n), d) IN <<n \div g, d \div g>>

Zero == <<0, 1>>

RAdd(x, y) == Rat(x[1] * y[2] + y[1] * x[2], x[2] * y[2])

RSub(x, y) == Rat(x[1] * y[2] - y[1] * x[2], x[2] * y[2])

RMul(x, y) == Rat(x[1] * y[1], x[2] * y[2])

RDiv(x, y) == Rat(x[1] * y[2], x[2] * y[1])

RLess(x, y) == x[1] * y[2] < y[1] * x[2]

RLeq(x, y) == x[1] * y[2] <= y[1] * x[2]

RAbs(x) == <<Abs(x[1]), x[2]>>

Floor(x) == x[1] \div x[2]

(***************************************************************************)
(* String.prototype.toLowerCase and String.prototype.includes.             *)
(***************************************************************************)
UpperCaseLetters ==
    <<"A", "B", "C", "D", "E", "F", "G", "H", "I", "J", "K", "L", "M",
      "N", "O", "P", "Q", "R", "S", "T", "U", "V", "W", "X", "Y", "Z">>

LowerCaseLetters ==
    <<"a", "b", "c", "d", "e", "f", "g", "h", "i", "j", "k", "l", "m",
      "n", "o", "p", "q", "r", "s", "t", "u", "v", "w", "x", "y", "z">>

UpperToLower ==
    [c \in {UpperCaseLetters[i] : i \in 1..Len(UpperCaseLetters)} |->
        LowerCaseLetters[CHOOSE i \in 1..Len(UpperCaseLetters) :
                             UpperCaseLetters[i] = c]]

ToLowerChar(c) == IF c \in DOMAIN UpperToLower THEN UpperToLower[c] ELSE c

ToLowerCase(s) == [i \in 1..Len(s) |-> ToLowerChar(s[i])]

Includes(s, k) ==
    \E i \in 0..(Len(s) - Len(k)) : SubSeq(s, i + 1, i + Len(k)) = k

(***************************************************************************)
(* Base weights of the three categories.                                   *)
(***************************************************************************)
SkillsWeight == <<1, 2>>
ExperienceWeight == <<3, 10>>
Top25EducationWeight == <<1, 5>>
Top50EducationWeight == <<3, 20>>
DefaultEducationWeight == <<1, 10>>

(***************************************************************************)
(* Binary64 evaluation of totalScore (lines 187-198).  The exact value and *)
(* the binary64 value differ by less than 1e-12, so Math.round(totalScore  *)
(* * 10) differs from the exact rounding only where the exact product is   *)
(* k + 1/2 and the binary64 product falls short of it.  The table lists    *)
(* those inputs for up to six keywords per category, each as               *)
(* <<isSkillsActive, skillMatchPercentage, isExperienceActive,             *)
(*   experienceMatchPercentage, isEducationActive,                         *)
(*   educationMatchPercentage, education weight added to the total>>.      *)
(***************************************************************************)
Binary64ShortOfHalf == {
    <<FALSE, <<0, 1>>, TRUE, <<50, 3>>, TRUE, <<25, 1>>, <<1, 10>>>>,
    <<FALSE, <<0, 1>>, TRUE, <<50, 3>>, TRUE, <<75, 1>>, <<1, 10>>>>,
    <<FALSE, <<0, 1>>, TRUE, <<25, 1>>, TRUE, <<0, 1>>, <<1, 10>>>>,
    <<FALSE, <<0, 1>>, TRUE, <<25, 1>>, TRUE, <<20, 1>>, <<1, 10>>>>,
    <<FALSE, <<0, 1>>, TRUE, <<25, 1>>, TRUE, <<40, 1>>, <<1, 10>>>>,
    <<FALSE, <<0, 1>>, TRUE, <<25, 1>>, TRUE, <<50, 1>>, <<1, 10>>>>,
    <<FALSE, <<0, 1>>, TRUE, <<100, 3>>, TRUE, <<25, 1>>, <<1, 10>>>>,
    <<FALSE, <<0, 1>>, TRUE, <<100, 3>>, TRUE, <<75, 1>>, <<1, 10>>>>,
    <<FALSE, <<0, 1>>, TRUE, <<50, 1>>, TRUE, <<25, 1>>, <<1, 10>>>>,
    <<FALSE, <<0, 1>>, TRUE, <<50, 1>>, TRUE, <<75, 1>>, <<1, 10>>>>,
    <<FALSE, <<0, 1>>, TRUE, <<60, 1>>, TRUE, <<25, 1>>, <<1, 10>>>>,
    <<FALSE, <<0, 1>>, TRUE, <<60, 1>>, TRUE, <<75, 1>>, <<1, 10>>>>,
    <<FALSE, <<0, 1>>, TRUE, <<200, 3>>, TRUE, <<25, 1>>, <<1, 10>>>>,
    <<FALSE, <<0, 1>>, TRUE, <<200, 3>>, TRUE, <<75, 1>>, <<1, 10>>>>,
    <<FALSE, <<0, 1>>, TRUE, <<75, 1>>, TRUE, <<0, 1>>, <<1, 10>>>>,
    <<FALSE, <<0, 1>>, TRUE, <<75, 1>>, TRUE, <<20, 1>>, <<1, 10>>>>,
    <<FALSE, <<0, 1>>, TRUE, <<100, 1>>, TRUE, <<25, 1>>, <<1, 10>>>>,
    <<FALSE, <<0, 1>>, TRUE, <<100, 1>>, TRUE, <<75, 1>>, <<1, 10>>>>,
    <<TRUE, <<0, 1>>, TRUE, <<50, 3>>, FALSE, <<0, 1>>, <<0, 1>>>>,
    <<TRUE, <<0, 1>>, TRUE, <<50, 1>>, FALSE, <<0, 1>>, <<0, 1>>>>,
    <<TRUE, <<20, 1>>, TRUE, <<50, 1>>, FALSE, <<0, 1>>, <<0, 1>>>>,
    <<TRUE, <<50, 1>>, TRUE, <<200, 3>>, FALSE, <<0, 1>>, <<0, 1>>>>
}

(***************************************************************************)
(* Binary64 evaluation of Math.abs(a.score - b.score) < 0.1 for two scores *)
(* one tenth apart: the set of k in 0..999 for which the binary64          *)
(* difference of (k + 1) / 10 and k / 10 is below the binary64 value of    *)
(* 0.1.  Equal scores differ by 0; scores two or more tenths apart differ  *)
(* by more than 0.1.                                                       *)
(***************************************************************************)
Binary64TenthGapBelow == {
    2, 4, 5, 6, 8, 9, 11, 13, 16, 18, 22, 27, 32, 37, 40, 42, 44, 45, 47, 49,
    50, 52, 54, 55, 57, 59, 60, 62, 64, 65, 67, 69, 70, 72, 74, 75, 77, 79, 80,
    81, 83, 84, 85, 86, 88, 89, 90, 91, 93, 94, 95, 96, 98, 99, 100, 101, 103,
    104, 105, 106, 108, 109, 110, 111, 113, 114, 115, 116, 118, 119, 120, 121,
    123, 124, 125, 126, 128, 129, 130, 131, 133, 134, 135, 136, 138, 139, 140,
    141, 143, 144, 145, 146, 148, 149, 150, 151, 153, 154, 155, 156, 158, 159,
    161, 163, 166, 168, 171, 173, 176, 178, 181, 183, 186, 188, 191, 193, 196,
    198, 201, 203, 206, 208, 211, 213, 216, 218, 221, 223, 226, 228, 231, 233,
    236, 238, 241, 243, 246, 248, 251, 253, 256, 258, 261, 263, 266, 268, 271,
    273, 276, 278, 281, 283, 286, 288, 291, 293, 296, 298, 301, 303, 306, 308,
    311, 313, 316, 318, 322, 327, 332, 337, 342, 347, 352, 357, 362, 367, 372,
    377, 382, 387, 392, 397, 402, 407, 412, 417, 422, 427, 432, 437, 442, 447,
    452, 457, 462, 467, 472, 477, 482, 487, 492, 497, 502, 507, 512, 517, 522,
    527, 532, 537, 542, 547, 552, 557, 562, 567, 572, 577, 582, 587, 592, 597,
    602, 607, 612, 617, 622, 627, 632, 637, 640, 642, 644, 645, 647, 649, 650,
    652, 654, 655, 657, 659, 660, 662, 664, 665, 667, 669, 670, 672, 674, 675,
    677, 679, 680, 682, 684, 685, 687, 689, 690, 692, 694, 695, 697, 699, 700,
    702, 704, 705, 707, 709, 710, 712, 714, 715, 717, 719, 720, 722, 724, 725,
    727, 729, 730, 732, 734, 735, 737, 739, 740, 742, 744, 745, 747, 749, 750,
    752, 754, 755, 757, 759, 760, 762, 764, 765, 767, 769, 770, 772, 774, 775,
    777, 779, 780, 782, 784, 785, 787, 789, 790, 792, 794, 795, 797, 799, 800,
    802, 804, 805, 807, 809, 810, 812, 814, 815, 817, 819, 820, 822, 824, 825,
    827, 829, 830, 832, 834, 835, 837, 839, 840, 842, 844, 845, 847, 849, 850,
    852, 854, 855, 857, 859, 860, 862, 864, 865, 867, 869, 870, 872, 874, 875,
    877, 879, 880, 882, 884, 885, 887, 889, 890, 892, 894, 895, 897, 899, 900,
    902, 904, 905, 907, 909, 910, 912, 914, 915, 917, 919, 920, 922, 924, 925,
    927, 929, 930, 932, 934, 935, 937, 939, 940, 942, 944, 945, 947, 949, 950,
    952, 954, 955, 957, 959, 960, 962, 964, 965, 967, 969, 970, 972, 974, 975,
    977, 979, 980, 982, 984, 985, 987, 989, 990, 992, 994, 995, 997, 999
}

(***************************************************************************)
(* Input data: candidate records (I_CandidateWithScore restricted to the   *)
(* fields the engine reads, plus id) and keyword pools.                    *)
(***************************************************************************)
Degree(degree, subject, isTop25, isTop50) ==
    [degree |-> degree, subject |-> subject,
     isTop25 |-> isTop25, isTop50 |-> isTop50]

Experience(roleName, company) == [roleName |-> roleName, company |-> company]

Candidate(id, skills, work_experiences, degrees) ==
    [id |-> id, skills |-> skills, work_experiences |-> work_experiences,
     education |-> [degrees |-> degrees]]

CandidatePool == {
    Candidate("c1", << <<"J", "S">> >>,
              << Experience(<<"D", "e", "v">>, <<"O", "p", "s">>) >>,
              << Degree(<<"B", "S", "c">>, <<"C", "S">>, TRUE, FALSE),
                 Degree(<<"M", "S", "c">>, <<"C", "S">>, FALSE, TRUE) >>),
    Candidate("c2", << <<"J", "S">> >>,
              << Experience(<<"D", "e", "v">>, <<"O", "p", "s">>) >>,
              << Degree(<<"B", "S", "c">>, <<"C", "S">>, FALSE, TRUE) >>),
    Candidate("c3", << <<"G", "o">>, <<"J", "S">> >>, << >>,
              << Degree(<<"B", "A">>, <<"A", "r", "t">>, FALSE, FALSE) >>) }

SkillKeywordPool == { <<"j", "s">>, <<"o">> }

ExperienceKeywordPool == { <<"d", "e", "v">>, <<"O", "P", "S">> }

EducationKeywordPool == { <<"s", "c">>, <<"a", "r", "t">> }

SeqsUpTo(S, n) == UNION {[1..k -> S] : k \in 0..n}

\* The three keyword lists of a call: at most MaxKeywords keywords in all.
KeywordLists ==
    UNION {[1..a -> SkillKeywordPool] \X [1..b -> ExperienceKeywordPool]
               \X [1..(n - a - b) -> EducationKeywordPool] :
           <<n, a, b>> \in {t \in (0..MaxKeywords) \X (0..MaxKeywords)
                                     \X (0..MaxKeywords) :
                               t[2] + t[3] <= t[1]}}

CandidateLists ==
    {l \in SeqsUpTo(CandidatePool, MaxCandidates) :
        \A i, j \in 1..Len(l) : l[i].id = l[j].id => i = j}

\* Candidates of the JSON data with absent properties: s1 has no skills, s2
\* no work_experiences, s3 no education, s4 an education without degrees;
\* the degrees of s5 and s6 have no isTop25 (optional in I_Degree).
SparseCandidatePool == {
    [id |-> "s1",
     work_experiences |->
        << Experience(<<"D", "e", "v">>, <<"O", "p", "s">>) >>,
     education |->
        [degrees |-> << Degree(<<"B", "S", "c">>, <<"C", "S">>,
                               FALSE, TRUE) >>]],
    [id |-> "s2", skills |-> << <<"J", "S">> >>,
     education |->
        [degrees |-> << Degree(<<"B", "S", "c">>, <<"C", "S">>,
                               TRUE, FALSE) >>]],
    [id |-> "s3", skills |-> << <<"J", "S">> >>,
     work_experiences |->
        << Experience(<<"D", "e", "v">>, <<"O", "p", "s">>) >>],
    [id |-> "s4", skills |-> << <<"J", "S">> >>,
     work_experiences |->
        << Experience(<<"D", "e", "v">>, <<"O", "p", "s">>) >>,
     education |-> [highest_level |-> <<"B", "S", "c">>]],
    [id |-> "s5", skills |-> << <<"J", "S">> >>,
     work_experiences |->
        << Experience(<<"D", "e", "v">>, <<"O", "p", "s">>) >>,
     education |->
        [degrees |-> << [degree |-> <<"B", "S", "c">>,
                         subject |-> <<"C", "S">>, isTop50 |-> TRUE] >>]],
    [id |-> "s6", skills |-> << <<"J", "S">> >>,
     work_experiences |-> << >>,
     education |->
        [degrees |-> << [degree |-> <<"B", "A">>,
                         subject |-> <<"A", "r", "t">>,
                         isTop50 |-> FALSE] >>]] }

SparseCandidateLists ==
    {l \in SeqsUpTo(SparseCandidatePool, MaxCandidates) :
        \A i, j \in 1..Len(l) : l[i].id = l[j].id => i = j}

\* Keyword lists for the sparse candidates: at most one keyword each.
SparseKeywordLists ==
    {<<>>, << <<"j", "s">> >>} \X {<<>>, << <<"d", "e", "v">> >>}
        \X {<<>>, << <<"s", "c">> >>}

(***************************************************************************)
(* calculateCandidateScores, step 1: match percentages.                    *)
(***************************************************************************)
SkillMatches(candidate, keyword) ==
    \E i \in 1..Len(candidate.skills) :
        Includes(ToLowerCase(candidate.skills[i]), ToLowerCase(keyword))

ExperienceMatches_RoleOrCompany(candidate, keyword) ==
    \E i \in 1..Len(candidate.work_experiences) :
        \/ Includes(ToLowerCase(candidate.work_experiences[i].roleName),
                    ToLowerCase(keyword))
        \/ Includes(ToLowerCase(candidate.work_experiences[i].company),
                    ToLowerCase(keyword))

ExperienceMatches(candidate, keyword) ==
    \E i \in 1..Len(candidate.work_experiences) :
        Includes(ToLowerCase(candidate.work_experiences[i].roleName),
                 ToLowerCase(keyword))

EducationMatches(candidate, keyword) ==
    \E i \in 1..Len(candidate.education.degrees) :
        LET degree == candidate.education.degrees[i] IN
        \/ Includes(ToLowerCase(degree.degree), ToLowerCase(keyword))
        \/ Includes(ToLowerCase(degree.subject), ToLowerCase(keyword))

Percentage(matched, total) ==
    RMul(RDiv(<<matched, 1>>, <<total, 1>>), <<100, 1>>)

SkillMatchPercentage_FirstKeywordOnly(candidate, skillKws) ==
    IF Len(skillKws) > 0
    THEN Percentage(IF SkillMatches(candidate, skillKws[1]) THEN 1 ELSE 0, 1)
    ELSE Zero

SkillMatchPercentage(candidate, skillKws) ==
    IF Len(skillKws) > 0
    THEN Percentage(Cardinality({i \in 1..Len(skillKws) :
                        SkillMatches(candidate, skillKws[i])}), Len(skillKws))
    ELSE Zero

ExperienceMatchPercentage(candidate, experienceKws) ==
    IF Len(experienceKws) > 0
    THEN Percentage(Cardinality({i \in 1..Len(experienceKws) :
                        ExperienceMatches(candidate, experienceKws[i])}),
                    Len(experienceKws))
    ELSE Zero

EducationMatchPercentage(candidate, educationKws) ==
    IF Len(educationKws) > 0
    THEN Percentage(Cardinality({i \in 1..Len(educationKws) :
                        EducationMatches(candidate, educationKws[i])}),
                    Len(educationKws))
    ELSE Zero

(***************************************************************************)
(* Step 2: education weight of the candidate and total active weight.      *)
(***************************************************************************)
\* degree.isTop25 and degree.isTop50 used as conditions: an absent property
\* reads as undefined, which is falsy.
Truthy(object, property) ==
    property \in DOMAIN object /\ object[property]

HasTop25(candidate) ==
    \E i \in 1..Len(candidate.education.degrees) :
        Truthy(candidate.education.degrees[i], "isTop25")

HasTop50(candidate) ==
    \E i \in 1..Len(candidate.education.degrees) :
        Truthy(candidate.education.degrees[i], "isTop50")

BaseEducationWeight_Top50First(candidate) ==
    IF HasTop50(candidate) THEN Top50EducationWeight
    ELSE IF HasTop25(candidate) THEN Top25EducationWeight
    ELSE DefaultEducationWeight

BaseEducationWeight(candidate) ==
    IF HasTop25(candidate) THEN Top25EducationWeight
    ELSE IF HasTop50(candidate) THEN Top50EducationWeight
    ELSE DefaultEducationWeight

(***************************************************************************)
(* Step 2, continued: total active weight of the candidate.                *)
(***************************************************************************)
TotalActiveWeight_AllCategories(isSkillsActive, isExperienceActive, isEducationActive, baseEducationWeight) ==
    RAdd(RAdd(RAdd(Zero, SkillsWeight), ExperienceWeight), baseEducationWeight)

TotalActiveWeight_Top25Education(isSkillsActive, isExperienceActive, isEducationActive, baseEducationWeight) ==
    LET w1 == IF isSkillsActive THEN RAdd(Zero, SkillsWeight) ELSE Zero
        w2 == IF isExperienceActive THEN RAdd(w1, ExperienceWeight) ELSE w1
    IN  IF isEducationActive THEN RAdd(w2, Top25EducationWeight) ELSE w2

TotalActiveWeight(isSkillsActive, isExperienceActive, isEducationActive, baseEducationWeight) ==
    LET w1 == IF isSkillsActive THEN RAdd(Zero, SkillsWeight) ELSE Zero
        w2 == IF isExperienceActive THEN RAdd(w1, ExperienceWeight) ELSE w1
    IN  IF isEducationActive THEN RAdd(w2, baseEducationWeight) ELSE w2

(***************************************************************************)
(* Step 3: the score with normalised weights, before rounding.             *)
(***************************************************************************)
TotalScore_Unnormalised(isSkillsActive, skillMatchPercentage, isExperienceActive, experienceMatchPercentage, isEducationActive, educationMatchPercentage, baseEducationWeight, totalActiveWeight) ==
    LET s1 == IF isSkillsActive
              THEN RAdd(Zero, RMul(skillMatchPercentage, SkillsWeight))
              ELSE Zero
        s2 == IF isExperienceActive
              THEN RAdd(s1, RMul(experienceMatchPercentage, ExperienceWeight))
              ELSE s1
        s3 == IF isEducationActive
              THEN RAdd(s2, RMul(educationMatchPercentage,
                                 baseEducationWeight))
              ELSE s2
    IN  IF RLess(Zero, totalActiveWeight) THEN s3 ELSE Zero

TotalScore(isSkillsActive, skillMatchPercentage, isExperienceActive, experienceMatchPercentage, isEducationActive, educationMatchPercentage, baseEducationWeight, totalActiveWeight) ==
    LET s1 == IF isSkillsActive
              THEN RAdd(Zero, RMul(skillMatchPercentage,
                                   RDiv(SkillsWeight, totalActiveWeight)))
              ELSE Zero
        s2 == IF isExperienceActive
              THEN RAdd(s1, RMul(experienceMatchPercentage,
                                 RDiv(ExperienceWeight, totalActiveWeight)))
              ELSE s1
        s3 == IF isEducationActive
              THEN RAdd(s2, RMul(educationMatchPercentage,
                                 RDiv(baseEducationWeight, totalActiveWeight)))
              ELSE s2
    IN  IF RLess(Zero, totalActiveWeight) THEN s3 ELSE Zero

(***************************************************************************)
(* Math.round(x): the integer nearest to x, a tie going to the larger one. *)
(* shortOfHalf tells that the binary64 argument lies just below the tie    *)
(* k + 1/2 that the exact x hits.                                          *)
(***************************************************************************)
MathRound_HalfDown(x, shortOfHalf) ==
    IF shortOfHalf THEN Floor(x)
    ELSE -Floor(RSub(<<1, 2>>, x))

MathRound(x, shortOfHalf) ==
    IF shortOfHalf THEN Floor(x) ELSE Floor(RAdd(x, <<1, 2>>))

RoundToTenth_NoRounding(x, shortOfHalf) == x

RoundToTenth(x, shortOfHalf) ==
    RDiv(<<MathRound(RMul(x, <<10, 1>>), shortOfHalf), 1>>, <<10, 1>>)

(***************************************************************************)
(* The record the map callback returns for one candidate.                  *)
(***************************************************************************)
EducationWeightShown_Always(isEducationActive, baseEducationWeight) ==
    baseEducationWeight

\* educationWeight: the weight is shown only if used.
EducationWeightShown(isEducationActive, baseEducationWeight) ==
    IF isEducationActive THEN baseEducationWeight ELSE Zero

ScoreCandidate(candidate, skillKws, experienceKws, educationKws) ==
    LET isSkillsActive == Len(skillKws) > 0
        isExperienceActive == Len(experienceKws) > 0
        isEducationActive == Len(educationKws) > 0
        skillMatchPercentage == SkillMatchPercentage(candidate, skillKws)
        experienceMatchPercentage ==
            ExperienceMatchPercentage(candidate, experienceKws)
        educationMatchPercentage ==
            EducationMatchPercentage(candidate, educationKws)
        baseEducationWeight == BaseEducationWeight(candidate)
        totalActiveWeight ==
            TotalActiveWeight(isSkillsActive, isExperienceActive,
                              isEducationActive, baseEducationWeight)
        totalScore ==
            TotalScore(isSkillsActive, skillMatchPercentage,
                       isExperienceActive, experienceMatchPercentage,
                       isEducationActive, educationMatchPercentage,
                       baseEducationWeight, totalActiveWeight)
        shortOfHalf ==
            <<isSkillsActive, skillMatchPercentage,
              isExperienceActive, experienceMatchPercentage,
              isEducationActive, educationMatchPercentage,
              IF isEducationActive THEN baseEducationWeight ELSE Zero>>
                \in Binary64ShortOfHalf
    IN  [score |-> RoundToTenth(totalScore, shortOfHalf),
         skillScore |-> RoundToTenth(totalScore, shortOfHalf),
         skillMatchPercentage |-> RoundToTenth(skillMatchPercentage, FALSE),
         experienceMatchPercentage |->
            RoundToTenth(experienceMatchPercentage, FALSE),
         educationMatchPercentage |->
            RoundToTenth(educationMatchPercentage, FALSE),
         educationWeight |->
            EducationWeightShown(isEducationActive, baseEducationWeight)]
        @@ candidate

RECURSIVE Scored(_, _, _, _)
\* The map callback reads a property of undefined: candidate.skills.some
\* (line 145) or candidate.work_experiences.some (line 153) in an active
\* category, candidate.education.degrees.some (line 161, and line 169 in
\* every call).
ThrowsTypeError(candidate, skillKws, experienceKws, educationKws) ==
    \/ Len(skillKws) > 0 /\ "skills" \notin DOMAIN candidate
    \/ Len(experienceKws) > 0 /\ "work_experiences" \notin DOMAIN candidate
    \/ "education" \notin DOMAIN candidate
    \/ "degrees" \notin DOMAIN candidate.education

Scored(cands, skillKws, experienceKws, educationKws) ==
    IF Len(cands) = 0 THEN <<>>
    ELSE Append(Scored(SubSeq(cands, 1, Len(cands) - 1),
                       skillKws, experienceKws, educationKws),
                ScoreCandidate(cands[Len(cands)],
                               skillKws, experienceKws, educationKws))

(***************************************************************************)
(* The sort of the scored list: comparator and Array.prototype.sort.       *)
(***************************************************************************)
Tenths(x) == Floor(RMul(x, <<10, 1>>))

Sign(x) == IF x[1] < 0 THEN -1 ELSE IF x[1] > 0 THEN 1 ELSE 0

\* Math.abs(a.score - b.score) < 0.1
TieSituation(a, b) ==
    LET ka == Tenths(a.score)
        kb == Tenths(b.score)
    IN  \/ ka = kb
        \/ ka = kb + 1 /\ kb \in Binary64TenthGapBelow
        \/ kb = ka + 1 /\ ka \in Binary64TenthGapBelow

CompareScored(a, b) ==
    LET aHasTop25 == HasTop25(a)
        bHasTop25 == HasTop25(b)
        aHasTop50 == HasTop50(a)
        bHasTop50 == HasTop50(b)
    IN  IF TieSituation(a, b)
        THEN IF aHasTop25 /\ ~bHasTop25 THEN -1
             ELSE IF ~aHasTop25 /\ bHasTop25 THEN 1
             ELSE IF ~aHasTop25 /\ ~bHasTop25 /\ aHasTop50 /\ ~bHasTop50
                  THEN -1
             ELSE IF ~aHasTop25 /\ ~bHasTop25 /\ ~aHasTop50 /\ bHasTop50
                  THEN 1
             ELSE Sign(RSub(b.score, a.score))
        ELSE Sign(RSub(b.score, a.score))

\* ECMAScript: the comparator, given as the matrix cmp of the signs of its
\* results on the elements 1..n, is a consistent comparison function.
ConsistentComparator(cmp, n) ==
    /\ cmp \in [(1..n) \X (1..n) -> {-1, 0, 1}]
    /\ \A a \in 1..n : cmp[a, a] = 0
    /\ \A a, b \in 1..n : cmp[a, b] = 0 => cmp[b, a] = 0
    /\ \A a, b, c \in 1..n :
        /\ cmp[a, b] = 0 /\ cmp[b, c] = 0 => cmp[a, c] = 0
        /\ cmp[a, b] < 0 /\ cmp[b, c] < 0 => cmp[a, c] < 0
        /\ cmp[a, b] > 0 /\ cmp[b, c] > 0 => cmp[a, c] > 0

\* Stable insertion of index x into the sorted index list: x goes behind
\* every element that does not sort after it.
RECURSIVE InsertSorted(_, _, _)
InsertSorted(cmp, sorted, x) ==
    IF Len(sorted) = 0 THEN <<x>>
    ELSE IF cmp[sorted[Len(sorted)], x] > 0
         THEN Append(InsertSorted(cmp, SubSeq(sorted, 1, Len(sorted) - 1), x),
                     sorted[Len(sorted)])
         ELSE Append(sorted, x)

RECURSIVE StableSort(_, _)
StableSort(cmp, n) ==
    IF n = 0 THEN <<>> ELSE InsertSorted(cmp, StableSort(cmp, n - 1), n)

ArraySort_DropsLast(arr) == {SubSeq(arr, 1, Len(arr) - 1)}

\* Array.prototype.sort with CompareScored: the set of orders the call can
\* produce.  The sort is stable; with a comparator that is not consistent
\* the order is implementation-defined.
ArraySort(arr) ==
    LET n == Len(arr)
        cmp == [a \in 1..n, b \in 1..n |-> CompareScored(arr[a], arr[b])]
        orders == IF ConsistentComparator(cmp, n) THEN {StableSort(cmp, n)}
                  ELSE {[i \in 1..n |-> p[i]] : p \in Permutations(1..n)}
    IN  {[i \in 1..n |-> arr[order[i]]] : order \in orders}

(***************************************************************************)
(* State machine: one call of calculateCandidateScores.                    *)
(***************************************************************************)
\* new Map(): no key.
EmptyMap == [key \in {} |-> key]

\* JavaScript numbers of the team size: an integer or NaN.
Num(n) == <<"number", n>>
NaN == <<"NaN", 0>>

\* JSON null: what JSON.stringify writes for NaN.
JSONNull == <<"null", 0>>

\* The score cache hook is not mounted.
CacheUnused ==
    /\ cache = EmptyMap
    /\ now = 0
    /\ indicesToFill = <<>>

\* The team size components are not mounted.
TeamUnused ==
    /\ teamSize = Num(0)
    /\ shortlistedTeam = <<>>
    /\ step = -1
    /\ localStorage = EmptyMap
    /\ pendingSaves = EmptyMap
    /\ inputValue = <<>>
    /\ isOpen = FALSE
    /\ activeRoleIndex = -1

\* The progressive loader is not mounted.
LoaderUnused ==
    /\ fullData = <<>>
    /\ batchSize = 20
    /\ loadedData = <<>>
    /\ currentIndex = 0
    /\ timer = <<>>
    /\ pendingEffects = FALSE
    /\ replacements = 0

Init ==
    /\ candidates \in CandidateLists
    /\ \E kws \in KeywordLists :
          /\ skillKeywords = kws[1]
          /\ experienceKeywords = kws[2]
          /\ educationKeywords = kws[3]
    /\ result = <<>>
    /\ pc = "ready"
    /\ CacheUnused
    /\ LoaderUnused
    /\ TeamUnused

CalculateCandidateScores_SortsInPlace ==
    /\ pc = "ready"
    /\ Len(candidates) > 0
    /\ result' \in ArraySort(Scored(candidates, skillKeywords,
                                     experienceKeywords, educationKeywords))
    /\ candidates' = [i \in 1..Len(candidates) |->
                        CHOOSE c \in {candidates[j] : j \in 1..Len(candidates)} :
                            c.id = result'[i].id]
    /\ pc' = "done"
    /\ UNCHANGED <<skillKeywords, experienceKeywords, educationKeywords>>
    /\ UNCHANGED <<cacheVars, teamVars, loaderVars>>

CalculateCandidateScores ==
    /\ pc = "ready"
    /\ IF Len(candidates) = 0
       THEN result' = <<>> /\ pc' = "done"
       ELSE IF \E i \in 1..Len(candidates) :
                   ThrowsTypeError(candidates[i], skillKeywords,
                                   experienceKeywords, educationKeywords)
       THEN result' = <<>> /\ pc' = "threw"
       ELSE /\ result' \in ArraySort(Scored(candidates, skillKeywords,
                                            experienceKeywords,
                                            educationKeywords))
            /\ pc' = "done"
    /\ UNCHANGED <<candidates, skillKeywords, experienceKeywords,
                   educationKeywords>>
    /\ UNCHANGED <<cacheVars, teamVars, loaderVars>>

Next == CalculateCandidateScores

Spec == Init /\ [][Next]_vars

\* Calls on candidates with absent properties.
InitSparse ==
    /\ candidates \in SparseCandidateLists
    /\ \E kws \in SparseKeywordLists :
          /\ skillKeywords = kws[1]
          /\ experienceKeywords = kws[2]
          /\ educationKeywords = kws[3]
    /\ result = <<>>
    /\ pc = "ready"
    /\ CacheUnused
    /\ LoaderUnused
    /\ TeamUnused

SpecSparse == InitSparse /\ [][Next]_vars

\* Calls without education keywords.
InitEducationInactive ==
    /\ candidates \in CandidateLists
    /\ \E kws \in {k \in KeywordLists : k[3] = <<>>} :
          /\ skillKeywords = kws[1]
          /\ experienceKeywords = kws[2]
          /\ educationKeywords = kws[3]
    /\ result = <<>>
    /\ pc = "ready"
    /\ CacheUnused
    /\ LoaderUnused
    /\ TeamUnused

SpecEducationInactive == InitEducationInactive /\ [][Next]_vars

(***************************************************************************)
(* useCandidateScoreCache with getScoredCandidates (src/unnamed/part_000,  *)
(* lines 122-215): a time-based cache in front of                          *)
(* calculateCandidateScores.  Time is Date.now() in milliseconds; the      *)
(* clock of the model advances in steps of ClockStepMs.                    *)
(***************************************************************************)
CACHE_EXPIRATION_MS == 5 * 60 * 1000

\* Two steps of the clock make one expiration period.
ClockStepMs == CACHE_EXPIRATION_MS \div 2
MaxClockSteps == 2

\* The characters of the candidate ids.
IdChars ==
    [id \in {"c1", "c2", "c3"} |->
        IF id = "c1" THEN <<"c", "1">>
        ELSE IF id = "c2" THEN <<"c", "2">> ELSE <<"c", "3">>]

RECURSIVE Concat(_)
Concat(strings) ==
    IF Len(strings) = 0 THEN <<>>
    ELSE Concat(SubSeq(strings, 1, Len(strings) - 1)) \o strings[Len(strings)]

\* Array.prototype.join
RECURSIVE Join(_, _)
Join(strings, separator) ==
    IF Len(strings) = 0 THEN <<>>
    ELSE IF Len(strings) = 1 THEN strings[1]
    ELSE Join(SubSeq(strings, 1, Len(strings) - 1), separator)
            \o separator \o strings[Len(strings)]

\* JSON.stringify of a string: quotes and backslashes are escaped.
JSONStringifyString(string) ==
    <<"\"">>
        \o Concat([i \in 1..Len(string) |->
                      IF string[i] \in {"\"", "\\"}
                      THEN <<"\\", string[i]>> ELSE <<string[i]>>])
        \o <<"\"">>

\* JSON.stringify of a string[]
JSONStringifyArray(strings) ==
    <<"[">>
        \o Join([i \in 1..Len(strings) |-> JSONStringifyString(strings[i])],
                <<",">>)
        \o <<"]">>

\* JSON.stringify(filters), properties in the order of the roleFilters
\* literal: skills, education, experience.
JSONStringify(filters) ==
    <<"{", "\"", "s", "k", "i", "l", "l", "s", "\"", ":">>
        \o JSONStringifyArray(filters.skills)
        \o <<",", "\"", "e", "d", "u", "c", "a", "t", "i", "o", "n", "\"",
             ":">>
        \o JSONStringifyArray(filters.education)
        \o <<",", "\"", "e", "x", "p", "e", "r", "i", "e", "n", "c", "e",
             "\"", ":">>
        \o JSONStringifyArray(filters.experience)
        \o <<"}">>

generateCacheKey_IdOnly(candidateId, filters) ==
    IdChars[candidateId] \o <<":", ":">>

\* `${candidateId}::${filterKey}`
generateCacheKey(candidateId, filters) ==
    LET filterKey == JSONStringify(filters)
    IN  IdChars[candidateId] \o <<":", ":">> \o filterKey

Filters(skills, experience, education) ==
    [skills |-> skills, experience |-> experience, education |-> education]

\* The candidate lists of the calls: the candidates c1 and c3.
ScoreCacheCandidateLists ==
    {list \in CandidateLists :
        \A i \in 1..Len(list) : list[i].id \in {"c1", "c3"}}

\* The filter sets of the calls.
FilterPool ==
    {Filters(<<>>, << <<"d", "e", "v">> >>, <<>>),
     Filters(<< <<"o">> >>, <<>>, <<>>)}

Unexpired_Inclusive(entry, t) == t - entry.timestamp <= CACHE_EXPIRATION_MS

\* now - entry.timestamp < CACHE_EXPIRATION_MS
Unexpired(entry, t) == t - entry.timestamp < CACHE_EXPIRATION_MS

\* The positions that are not served from the cache, in input order
\* (indicesToFill, counted from 1).
RECURSIVE IndicesToFill(_, _, _, _)
IndicesToFill(cands, filters, map, t) ==
    IF Len(cands) = 0 THEN <<>>
    ELSE LET front == IndicesToFill(SubSeq(cands, 1, Len(cands) - 1),
                                    filters, map, t)
             key == generateCacheKey(cands[Len(cands)].id, filters)
         IN  IF key \in DOMAIN map /\ Unexpired(map[key], t)
             THEN front ELSE Append(front, Len(cands))

\* cache.current after the forEach of step 3 has stored newlyScored.
RECURSIVE CacheSetAll(_, _, _, _)
CacheSetAll(map, newlyScored, filters, t) ==
    IF Len(newlyScored) = 0 THEN map
    ELSE LET before == CacheSetAll(map,
                           SubSeq(newlyScored, 1, Len(newlyScored) - 1),
                           filters, t)
             scoredCand == newlyScored[Len(newlyScored)]
             key == generateCacheKey(scoredCand.id, filters)
             entry == [scoredCandidate |-> scoredCand, timestamp |-> t]
         IN  [k \in DOMAIN before \cup {key} |->
                 IF k = key THEN entry ELSE before[k]]

\* Position in seq of the value x.
IndexOf(seq, x) == CHOOSE i \in 1..Len(seq) : seq[i] = x

GetScoredCandidates(cands, filters) ==
    LET toFill == IndicesToFill(cands, filters, cache, now)
        candidatesToScore == [i \in 1..Len(toFill) |-> cands[toFill[i]]]
        filled == {toFill[i] : i \in 1..Len(toFill)}
    IN  /\ \E newlyScored \in
               IF Len(toFill) > 0
               THEN ArraySort(Scored(candidatesToScore, filters.skills,
                                     filters.experience, filters.education))
               ELSE {<<>>} :
             /\ result' = [index \in 1..Len(cands) |->
                              IF index \in filled
                              THEN newlyScored[IndexOf(toFill, index)]
                              ELSE cache[generateCacheKey(cands[index].id,
                                                          filters)]
                                       .scoredCandidate]
             /\ cache' = CacheSetAll(cache, newlyScored, filters, now)
        /\ indicesToFill' = toFill
        /\ candidates' = cands
        /\ skillKeywords' = filters.skills
        /\ experienceKeywords' = filters.experience
        /\ educationKeywords' = filters.education
        /\ pc' = "getScoredCandidates"
        /\ UNCHANGED <<now, teamVars, loaderVars>>

\* The setInterval callback of step 4.
CleanupInterval ==
    /\ cache' = [key \in {k \in DOMAIN cache :
                             ~(now - cache[k].timestamp
                                   >= CACHE_EXPIRATION_MS)} |-> cache[key]]
    /\ pc' = "cleanupInterval"
    /\ UNCHANGED <<candidates, skillKeywords, experienceKeywords,
                   educationKeywords, result, now, indicesToFill, teamVars,
                   loaderVars>>

\* Time passes.
AdvanceClock ==
    /\ now < MaxClockSteps * ClockStepMs
    /\ now' = now + ClockStepMs
    /\ pc' = "clock"
    /\ UNCHANGED <<candidates, skillKeywords, experienceKeywords,
                   educationKeywords, result, cache, indicesToFill,
                   teamVars, loaderVars>>

InitScoreCache ==
    /\ candidates = <<>>
    /\ skillKeywords = <<>>
    /\ experienceKeywords = <<>>
    /\ educationKeywords = <<>>
    /\ result = <<>>
    /\ pc = "mounted"
    /\ CacheUnused
    /\ LoaderUnused
    /\ TeamUnused

NextScoreCache ==
    \/ \E cands \in ScoreCacheCandidateLists, filters \in FilterPool :
          GetScoredCandidates(cands, filters)
    \/ CleanupInterval
    \/ AdvanceClock

SpecScoreCache == InitScoreCache /\ [][NextScoreCache]_vars

(***************************************************************************)
(* useCandidateScoreCache with getCachedScores (src/unnamed/part_000,      *)
(* lines 1-121): a cache with access counts.  The counters of              *)
(* stats.current are written and never read; they are left out.  Every     *)
(* Date.now() of one call reads the same millisecond.                      *)
(***************************************************************************)
MaxAccessCount == 2

Alphabet ==
    <<"a", "b", "c", "d", "e", "f", "g", "h", "i", "j", "k", "l", "m",
      "n", "o", "p", "q", "r", "s", "t", "u", "v", "w", "x", "y", "z">>

\* The UTF-16 code unit of a lower-case letter.
CodeUnit(ch) == 96 + CHOOSE i \in 1..Len(Alphabet) : Alphabet[i] = ch

\* a < b for strings: the comparison of Array.prototype.sort() without a
\* comparator, by code units.
RECURSIVE StringLess(_, _)
StringLess(a, b) ==
    IF Len(b) = 0 THEN FALSE
    ELSE IF Len(a) = 0 THEN TRUE
    ELSE IF a[1] # b[1] THEN CodeUnit(a[1]) < CodeUnit(b[1])
    ELSE StringLess(Tail(a), Tail(b))

\* Array.prototype.sort() without a comparator (stable).
RECURSIVE DefaultSort(_)
DefaultSort(strings) ==
    IF Len(strings) <= 1 THEN strings
    ELSE LET front == DefaultSort(SubSeq(strings, 1, Len(strings) - 1))
             last == strings[Len(strings)]
             before == {i \in 1..Len(front) : ~StringLess(last, front[i])}
             n == Cardinality(before)
         IN  SubSeq(front, 1, n) \o <<last>>
                 \o SubSeq(front, n + 1, Len(front))

\* The filters after generateCacheKey has sorted the three arrays in place.
SortedInPlace(filters) ==
    Filters(DefaultSort(filters.skills), DefaultSort(filters.experience),
            DefaultSort(filters.education))

\* `${candidateId}::${filterKey}` with the sorted lists joined by '|' and
\* the three joined by '::'.
generateStableCacheKey(candidateId, filters) ==
    LET filterKey == Join(<<Join(DefaultSort(filters.skills), <<"|">>),
                            Join(DefaultSort(filters.experience), <<"|">>),
                            Join(DefaultSort(filters.education), <<"|">>)>>,
                          <<":", ":">>)
    IN  IdChars[candidateId] \o <<":", ":">> \o filterKey

\* The filter sets of the getCachedScores calls: the same two skill
\* keywords in both orders.
StableFilterPool ==
    {Filters(<< <<"o">>, <<"j">> >>, <<>>, <<>>),
     Filters(<< <<"j">>, <<"o">> >>, <<>>, <<>>)}

\* uncachedIndices, counted from 1.
RECURSIVE UncachedIndices(_, _, _)
UncachedIndices(cands, filters, map) ==
    IF Len(cands) = 0 THEN <<>>
    ELSE LET front == UncachedIndices(SubSeq(cands, 1, Len(cands) - 1),
                                      filters, map)
             cacheKey == generateStableCacheKey(cands[Len(cands)].id,
                                                filters)
         IN  IF cacheKey \in DOMAIN map
             THEN front ELSE Append(front, Len(cands))

\* cache.current after the first pass: every hit entry is touched.
TouchHits(map, cands, filters, t) ==
    LET hits == {generateStableCacheKey(cands[i].id, filters) :
                    i \in 1..Len(cands)} \cap DOMAIN map
    IN  [k \in DOMAIN map |->
            IF k \in hits
            THEN [map[k] EXCEPT !.accessCount = @ + 1, !.timestamp = t]
            ELSE map[k]]

\* cache.current after the forEach over batchScored: the entry of position
\* batchIndex is stored under the key of uncachedCandidates[batchIndex].
RECURSIVE StoreBatch(_, _, _, _, _)
StoreBatch(map, batchScored, uncachedCandidates, filters, t) ==
    IF Len(batchScored) = 0 THEN map
    ELSE LET batchIndex == Len(batchScored)
             before == StoreBatch(map, SubSeq(batchScored, 1, batchIndex - 1),
                                  uncachedCandidates, filters, t)
             cacheKey == generateStableCacheKey(
                             uncachedCandidates[batchIndex].id, filters)
             entry == [score |-> batchScored[batchIndex], timestamp |-> t,
                       accessCount |-> 1]
         IN  [k \in DOMAIN before \cup {cacheKey} |->
                 IF k = cacheKey THEN entry ELSE before[k]]

GetCachedScores(cands, filters) ==
    LET uncachedIndices == UncachedIndices(cands, filters, cache)
        uncachedCandidates ==
            [i \in 1..Len(uncachedIndices) |-> cands[uncachedIndices[i]]]
        uncached == {uncachedIndices[i] : i \in 1..Len(uncachedIndices)}
        sorted == SortedInPlace(filters)
    IN  /\ \A i \in 1..Len(cands) :
              LET cacheKey == generateStableCacheKey(cands[i].id, filters)
              IN  cacheKey \in DOMAIN cache
                      => cache[cacheKey].accessCount < MaxAccessCount
        /\ \E batchScored \in
               IF Len(uncachedIndices) > 0
               THEN ArraySort(Scored(uncachedCandidates, sorted.skills,
                                     sorted.experience, sorted.education))
               ELSE {<<>>} :
             /\ result' = [index \in 1..Len(cands) |->
                              IF index \in uncached
                              THEN batchScored[IndexOf(uncachedIndices,
                                                       index)]
                              ELSE cache[generateStableCacheKey(
                                             cands[index].id, filters)].score]
             /\ cache' = StoreBatch(TouchHits(cache, cands, filters, now),
                                    batchScored, uncachedCandidates, filters,
                                    now)
        /\ indicesToFill' = uncachedIndices
        /\ candidates' = cands
        /\ skillKeywords' = sorted.skills
        /\ experienceKeywords' = sorted.experience
        /\ educationKeywords' = sorted.education
        /\ pc' = "getCachedScores"
        /\ UNCHANGED <<now, teamVars, loaderVars>>

\* The keys cleanupCache deletes as expired: now - entry.timestamp > maxAge.
ExpiredKeys(map, maxAge, t) ==
    {key \in DOMAIN map : t - map[key].timestamp > maxAge}

\* The sets of keys the second pass of cleanupCache may delete: the first
\* validEntries.length - maxSize entries of validEntries sorted by
\* timestamp.  The sort is stable, so entries of equal timestamp keep the
\* insertion order of the Map, which this model does not record: any of
\* them may come first.
LeastRecentlyUsed(map, validKeys, maxSize) ==
    IF Cardinality(validKeys) > maxSize
    THEN {evicted \in SUBSET validKeys :
             /\ Cardinality(evicted) = Cardinality(validKeys) - maxSize
             /\ \A a \in evicted, b \in validKeys \ evicted :
                    map[a].timestamp <= map[b].timestamp}
    ELSE {{}}

\* The arguments of the cleanupCache calls: those of the periodic cleanup
\* (1000 entries, 5 minutes) and a caller's smaller ones.
CleanupArguments == {1, 1000} \X {ClockStepMs, CACHE_EXPIRATION_MS}

cleanupCache(maxSize, maxAge) ==
    /\ IF Cardinality(DOMAIN cache) <= maxSize
       THEN cache' = cache
       ELSE LET validKeys == DOMAIN cache \ ExpiredKeys(cache, maxAge, now)
            IN  \E evicted \in LeastRecentlyUsed(cache, validKeys, maxSize) :
                   cache' = [key \in validKeys \ evicted |-> cache[key]]
    /\ pc' = "cleanupCache"
    /\ UNCHANGED <<candidates, skillKeywords, experienceKeywords,
                   educationKeywords, result, now, indicesToFill, teamVars,
                   loaderVars>>

NextCachedScores ==
    \/ \E cands \in ScoreCacheCandidateLists, filters \in StableFilterPool :
          GetCachedScores(cands, filters)
    \/ \E arguments \in CleanupArguments :
          cleanupCache(arguments[1], arguments[2])
    \/ AdvanceClock

SpecCachedScores == InitScoreCache /\ [][NextCachedScores]_vars

(***************************************************************************)
(* Team size and workflow: AppProvider (src/src/context/AppContext.tsx),   *)
(* ShortlistPage (src/src/pages/ShortlistPage.tsx), TeamSizeSetup          *)
(* (src/src/components/shortlist/KeywordInput.tsx, lines 121-221) and      *)
(* TeamSizeModal (src/unnamed/part_001).  An action is one event handler   *)
(* together with the renders and effects it causes.  The members of        *)
(* shortlistedTeam are represented by their ids.  Of the idle callbacks    *)
(* queued for one storage key only the last one is kept: it writes last.   *)
(* The candidates are loaded (loading is false) and storageAvailable, which *)
(* ShortlistPage reads from the context, has the value AppProvider         *)
(* computes (true; AppContext.tsx line 40).  TeamBuilder is the component  *)
(* of src/unnamed/part_004, lines 199-460; NextTeamAdd has the one of      *)
(* lines 1-198 in its place.                                               *)
(***************************************************************************)
E_WorkflowStep == [EMPTY |-> 0, TEAM_SETUP |-> 1, BUILDING |-> 2, REVIEW |-> 3]

TEAM_SIZE_CONSTRAINTS == [MIN |-> 1, MAX |-> 15]

STORAGE_KEYS ==
    [SHORTLISTED_TEAM |-> "applicant_screening_shortlisted_team",
     TEAM_SIZE |-> "applicant_screening_team_size"]

Digits == <<"0", "1", "2", "3", "4", "5", "6", "7", "8", "9">>

IsDigit(ch) == \E i \in 1..Len(Digits) : Digits[i] = ch

DigitValue(ch) == (CHOOSE i \in 1..Len(Digits) : Digits[i] = ch) - 1

\* The value of the longest prefix of digits, after the digits read so far.
RECURSIVE ParseDigits(_, _)
ParseDigits(string, soFar) ==
    IF Len(string) = 0 \/ ~IsDigit(string[1]) THEN soFar
    ELSE ParseDigits(Tail(string), 10 * soFar + DigitValue(string[1]))

\* parseInt(string): optional sign, then digits up to the first character
\* that is not a digit; NaN when there is no digit.
ParseInt(string) ==
    LET signed == Len(string) > 0 /\ string[1] \in {"-", "+"}
        rest == IF signed THEN Tail(string) ELSE string
    IN  IF Len(rest) = 0 \/ ~IsDigit(rest[1]) THEN NaN
        ELSE IF signed /\ string[1] = "-" THEN Num(0 - ParseDigits(rest, 0))
        ELSE Num(ParseDigits(rest, 0))

\* n.toString() of a positive integer.
RECURSIVE NumberToString(_)
NumberToString(n) ==
    IF n < 10 THEN <<Digits[n + 1]>>
    ELSE Append(NumberToString(n \div 10), Digits[(n % 10) + 1])

\* The texts typed into the team size inputs (type="number").
TeamSizeInputs == {<<>>, <<"1">>, <<"2">>, <<"1", "6">>, <<"-", "1">>}

\* The candidates offered for selection.
TeamCandidateIds == {"c1", "c3"}

\* value > 0 for a number, NaN or null.
GreaterThanZero(value) == value[1] = "number" /\ value[2] > 0

\* JSON.parse(JSON.stringify(size)): NaN is written as null.
JSONRoundTrip(size) == IF size = NaN THEN JSONNull ELSE size

\* array.slice(0, end)
Slice(array, end) ==
    LET last == IF end < 0 THEN Len(array) + end ELSE end
    IN  SubSeq(array, 1, IF last > Len(array) THEN Len(array) ELSE last)

\* The shortlistedTeam that setTeamSize(size) leaves.
TrimmedTeam(size, team) ==
    IF size[1] = "number" /\ size[2] < Len(team)
    THEN Slice(team, size[2]) ELSE team

\* The member of a role that is not filled: TeamBuilder pads shortlistedTeam
\* with null.  It is a string, as the ids are, and the id of no candidate.
NoMember == "null"

\* firstEmptyRoleIndex of TeamBuilder's first effect (roles count from 0).
FirstEmptyRoleIndex(size, team) ==
    IF size[1] = "number" /\ Len(team) < size[2] THEN Len(team) ELSE -1

\* The render after a handler has set teamSize to size, shortlistedTeam to
\* team (teamSet: by a set call), step to handlerStep and activeRoleIndex to
\* handlerIndex, and the effects of that render: ShortlistPage recomputes
\* step when teamSize or shortlistedTeam.length changed, the two save
\* effects queue their idle callbacks, TeamSizeSetup copies a positive
\* teamSize into its input, TeamBuilder's first effect activates the first
\* empty role when it mounts or when teamSize or shortlistedTeam.length
\* changed, and its auto-progress effect, which runs after it, sets
\* activeRoleIndex to autoProgress[1] (autoProgress is <<>> when that
\* effect does nothing); TeamBuilder and TeamSizeSetup lose their state
\* when they are unmounted.
RenderWithRole(size, team, teamSet, handlerStep, open, text, handlerIndex, autoProgress) ==
    LET depsChanged == size # teamSize \/ Len(team) # Len(shortlistedTeam)
        finalStep == IF depsChanged
                     THEN IF GreaterThanZero(size)
                          THEN E_WorkflowStep.BUILDING
                          ELSE E_WorkflowStep.EMPTY
                     ELSE handlerStep
        builderStays == /\ step = E_WorkflowStep.BUILDING
                        /\ handlerStep = E_WorkflowStep.BUILDING
                        /\ finalStep = E_WorkflowStep.BUILDING
        setupStays == /\ step = E_WorkflowStep.TEAM_SETUP
                      /\ handlerStep = E_WorkflowStep.TEAM_SETUP
                      /\ finalStep = E_WorkflowStep.TEAM_SETUP
        saved == (IF size # teamSize THEN {STORAGE_KEYS.TEAM_SIZE} ELSE {})
                     \cup (IF teamSet THEN {STORAGE_KEYS.SHORTLISTED_TEAM}
                           ELSE {})
    IN  /\ teamSize' = size
        /\ shortlistedTeam' = team
        /\ step' = finalStep
        /\ isOpen' = (builderStays /\ open)
        /\ activeRoleIndex' =
              IF finalStep # E_WorkflowStep.BUILDING THEN -1
              ELSE IF autoProgress # <<>> THEN autoProgress[1]
              ELSE IF step # E_WorkflowStep.BUILDING \/ depsChanged
              THEN FirstEmptyRoleIndex(size, team)
              ELSE handlerIndex
        /\ inputValue' =
              IF finalStep # E_WorkflowStep.TEAM_SETUP THEN <<>>
              ELSE IF GreaterThanZero(size) /\ (~setupStays \/ size # teamSize)
              THEN NumberToString(size[2])
              ELSE IF setupStays THEN text ELSE <<>>
        /\ pendingSaves' =
              [key \in DOMAIN pendingSaves \cup saved |->
                  IF key \notin saved THEN pendingSaves[key]
                  ELSE IF key = STORAGE_KEYS.TEAM_SIZE
                  THEN JSONRoundTrip(size) ELSE team]

\* The render after a handler that leaves activeRoleIndex alone.
Render(size, team, teamSet, handlerStep, open, text) ==
    RenderWithRole(size, team, teamSet, handlerStep, open, text,
                   activeRoleIndex, <<>>)

\* ShortlistPage.handleStartBuilding: clearShortlist, then TEAM_SETUP.
HandleStartBuilding ==
    /\ step \in {E_WorkflowStep.EMPTY, E_WorkflowStep.REVIEW}
    /\ localStorage' = EmptyMap
    /\ Render(Num(0), <<>>, TRUE, E_WorkflowStep.TEAM_SETUP, FALSE, <<>>)
    /\ UNCHANGED <<callVars, cacheVars, loaderVars>>

\* ShortlistPage.handleBackFromTeamSize
HandleBackFromTeamSize ==
    /\ step = E_WorkflowStep.TEAM_SETUP
    /\ Render(teamSize, shortlistedTeam, FALSE, E_WorkflowStep.EMPTY, FALSE,
              <<>>)
    /\ UNCHANGED <<localStorage, callVars, cacheVars, loaderVars>>

\* TeamSizeSetup.handleInputChange
TeamSizeSetupHandleInputChange(value) ==
    /\ step = E_WorkflowStep.TEAM_SETUP
    /\ inputValue' = value
    /\ UNCHANGED <<teamSize, shortlistedTeam, step, localStorage,
                   pendingSaves, isOpen, activeRoleIndex, callVars,
                   cacheVars, loaderVars>>

\* TeamSizeSetup.handleSubmit, with ShortlistPage.handleTeamSizeSubmit.
TeamSizeSetupHandleSubmit ==
    LET size == ParseInt(inputValue)
    IN  /\ step = E_WorkflowStep.TEAM_SETUP
        /\ IF \/ size = NaN
              \/ size[2] < TEAM_SIZE_CONSTRAINTS.MIN
              \/ size[2] > TEAM_SIZE_CONSTRAINTS.MAX
           THEN UNCHANGED teamVars
           ELSE /\ Render(size, TrimmedTeam(size, shortlistedTeam),
                          TrimmedTeam(size, shortlistedTeam)
                              # shortlistedTeam,
                          E_WorkflowStep.BUILDING, FALSE, inputValue)
                /\ UNCHANGED localStorage
        /\ UNCHANGED <<callVars, cacheVars, loaderVars>>

\* TeamBuilder.handleChangeTeamSize; the modal's effect calls
\* setTeamSize(currentTeamSize) when it opens.
HandleChangeTeamSize ==
    /\ step = E_WorkflowStep.BUILDING
    /\ ~isOpen
    /\ Render(teamSize, TrimmedTeam(teamSize, shortlistedTeam),
              TrimmedTeam(teamSize, shortlistedTeam) # shortlistedTeam,
              E_WorkflowStep.BUILDING, TRUE, <<>>)
    /\ UNCHANGED <<localStorage, callVars, cacheVars, loaderVars>>

\* TeamSizeModal.handleInputChange: setTeamSize(parseInt(value)); the
\* modal's effect then calls setTeamSize(currentTeamSize) once more.
TeamSizeModalHandleInputChange(value) ==
    LET size == ParseInt(value)
        team == TrimmedTeam(size, TrimmedTeam(size, shortlistedTeam))
    IN  /\ isOpen
        /\ Render(size, team, team # shortlistedTeam,
                  E_WorkflowStep.BUILDING, TRUE, <<>>)
        /\ UNCHANGED <<localStorage, callVars, cacheVars, loaderVars>>

\* size >= MIN && size <= MAX
validateTeamSize(size) ==
    /\ size[2] >= TEAM_SIZE_CONSTRAINTS.MIN
    /\ size[2] <= TEAM_SIZE_CONSTRAINTS.MAX

\* TeamSizeModal.handleSubmit, with TeamBuilder.handleTeamSizeConfirm.
TeamSizeModalHandleSubmit ==
    /\ isOpen
    /\ IF teamSize = NaN \/ ~validateTeamSize(teamSize)
       THEN UNCHANGED teamVars
       ELSE /\ Render(teamSize, TrimmedTeam(teamSize, shortlistedTeam),
                      TrimmedTeam(teamSize, shortlistedTeam)
                          # shortlistedTeam,
                      E_WorkflowStep.BUILDING, FALSE, <<>>)
            /\ UNCHANGED localStorage
    /\ UNCHANGED <<callVars, cacheVars, loaderVars>>

\* TeamSizeModal.handleCancel: setTeamSize(currentTeamSize), onClose.
TeamSizeModalHandleCancel ==
    /\ isOpen
    /\ Render(teamSize, TrimmedTeam(teamSize, shortlistedTeam),
              TrimmedTeam(teamSize, shortlistedTeam) # shortlistedTeam,
              E_WorkflowStep.BUILDING, FALSE, <<>>)
    /\ UNCHANGED <<localStorage, callVars, cacheVars, loaderVars>>

\* addToShortlist's updater without the exists check.
addToShortlist_AlwaysAppends(prev, candidateId) == Append(prev, candidateId)

\* The updater of addToShortlist: prev when a member has the id.
addToShortlist(prev, candidateId) ==
    LET exists == \E i \in 1..Len(prev) : prev[i] = candidateId
    IN  IF exists THEN prev ELSE Append(prev, candidateId)

\* prev.some(c => c.id === candidate.id) reads c.id of a null member before
\* it finds the id: a TypeError.
AddToShortlistThrows(prev, candidateId) ==
    \E i \in 1..Len(prev) :
       /\ prev[i] = NoMember
       /\ \A j \in 1..(i - 1) : prev[j] # candidateId

\* An error thrown while rendering: React unmounts the whole tree, no
\* component is left to handle an event until the page is loaded again.
\* The idle callbacks already queued still run.
Unmount ==
    /\ step' = -1
    /\ isOpen' = FALSE
    /\ inputValue' = <<>>
    /\ activeRoleIndex' = -1
    /\ UNCHANGED <<teamSize, shortlistedTeam, pendingSaves>>

\* ShortlistPage.handleCandidateSelectFromModal: addToShortlist(candidate);
\* CandidateModal shows the button while building and the team is not full.
HandleCandidateSelectFromModal(candidateId) ==
    LET newTeam == addToShortlist(shortlistedTeam, candidateId)
    IN  /\ step = E_WorkflowStep.BUILDING
        /\ teamSize[1] = "number"
        /\ Len(shortlistedTeam) < teamSize[2]
        /\ IF AddToShortlistThrows(shortlistedTeam, candidateId)
           THEN Unmount
           ELSE Render(teamSize, newTeam, newTeam # shortlistedTeam,
                       E_WorkflowStep.BUILDING, isOpen, <<>>)
        /\ UNCHANGED <<localStorage, callVars, cacheVars, loaderVars>>

\* The role indices RoleSlotPanel passes to onRoleSelect.
RoleIndices == {0, 1, 2}

\* findNextEmptyRoleIndex(team)
FindNextEmptyRoleIndex(size, team) ==
    LET empty == IF size[1] # "number" THEN {}
                 ELSE {i \in 0..(size[2] - 1) :
                          i >= Len(team) \/ team[i + 1] = NoMember}
    IN  IF empty = {} THEN -1
        ELSE CHOOSE i \in empty : \A j \in empty : i <= j

\* validSelectedCandidates: the members that are not null, cut to teamSize
\* (slice(0, NaN) is empty).
ValidSelectedCandidates(size, team) ==
    LET members == SelectSeq(team, LAMBDA member : member # NoMember)
    IN  IF size[1] = "number" THEN Slice(members, size[2]) ELSE <<>>

\* isTeamComplete: filledRolesCount === teamSize
IsTeamComplete(size, team) ==
    /\ size[1] = "number"
    /\ Len(ValidSelectedCandidates(size, team)) = size[2]

\* isReplacingRole
IsReplacingRole(team, roleIndex) ==
    /\ roleIndex >= 0
    /\ roleIndex < Len(team)
    /\ team[roleIndex + 1] # NoMember

\* replaceInShortlist(candidate, index)
replaceInShortlist(team, candidateId, index) ==
    [team EXCEPT ![index + 1] = candidateId]

\* newTeam of handleCandidateSelect: the team padded with null up to the
\* role, the candidate in the role.
PaddedTeam(team, candidateId, index) ==
    [i \in 1..(IF Len(team) > index + 1 THEN Len(team) ELSE index + 1) |->
        IF i = index + 1 THEN candidateId
        ELSE IF i <= Len(team) THEN team[i] ELSE NoMember]

\* TeamBuilder.handleRoleSelect.  The open TeamSizeModal is a modal dialog:
\* nothing of TeamBuilder behind it can be clicked.
HandleRoleSelect(roleIndex) ==
    /\ step = E_WorkflowStep.BUILDING
    /\ ~isOpen
    /\ IF roleIndex < 0 \/ (teamSize[1] = "number" /\ roleIndex >= teamSize[2])
       THEN UNCHANGED teamVars
       ELSE /\ RenderWithRole(teamSize, shortlistedTeam, FALSE,
                              E_WorkflowStep.BUILDING, isOpen, <<>>,
                              roleIndex, <<>>)
            /\ UNCHANGED localStorage
    /\ UNCHANGED <<callVars, cacheVars, loaderVars>>

\* TeamBuilder.handleCandidateSelect with the auto-progress effect.  The
\* rows with a Select button are the loadedData of the progressive loader,
\* which may still be those of an earlier list: any candidate can be
\* clicked while the buttons are shown.
HandleCandidateSelect(candidateId) ==
    LET isAlreadySelected ==
            \E i \in 1..Len(shortlistedTeam) :
               /\ shortlistedTeam[i] # NoMember
               /\ shortlistedTeam[i] = candidateId
               /\ i - 1 # activeRoleIndex
        isReplacing == IsReplacingRole(shortlistedTeam, activeRoleIndex)
        newTeam == IF isReplacing
                   THEN replaceInShortlist(shortlistedTeam, candidateId,
                                           activeRoleIndex)
                   ELSE PaddedTeam(shortlistedTeam, candidateId,
                                   activeRoleIndex)
    IN  /\ step = E_WorkflowStep.BUILDING
        /\ ~isOpen
        /\ \/ ~IsTeamComplete(teamSize, shortlistedTeam)
           \/ IsReplacingRole(shortlistedTeam, activeRoleIndex)
        /\ IF activeRoleIndex < 0 \/ isAlreadySelected
           THEN UNCHANGED teamVars
           ELSE /\ RenderWithRole(teamSize, newTeam, TRUE,
                                  E_WorkflowStep.BUILDING, isOpen, <<>>,
                                  activeRoleIndex,
                                  <<FindNextEmptyRoleIndex(teamSize,
                                                           newTeam)>>)
                /\ UNCHANGED localStorage
        /\ UNCHANGED <<callVars, cacheVars, loaderVars>>

\* ShortlistPage.handleReviewTeam: the Review Team button of TeamBuilder is
\* shown when the team is complete and no role is active.  TeamReview reads
\* candidate.skillScore and candidate.skills of every member while it
\* renders: a TypeError when a member is null.
HandleReviewTeam ==
    /\ step = E_WorkflowStep.BUILDING
    /\ ~isOpen
    /\ IsTeamComplete(teamSize, shortlistedTeam)
    /\ activeRoleIndex < 0
    /\ IF \E i \in 1..Len(shortlistedTeam) : shortlistedTeam[i] = NoMember
       THEN Unmount
       ELSE Render(teamSize, shortlistedTeam, FALSE, E_WorkflowStep.REVIEW,
                   FALSE, <<>>)
    /\ UNCHANGED <<localStorage, callVars, cacheVars, loaderVars>>

\* ShortlistPage.handleBackToBuilding
HandleBackToBuilding ==
    /\ step = E_WorkflowStep.REVIEW
    /\ Render(teamSize, shortlistedTeam, FALSE, E_WorkflowStep.BUILDING,
              FALSE, <<>>)
    /\ UNCHANGED <<localStorage, callVars, cacheVars, loaderVars>>

\* onRoleSelect of the TeamBuilder that adds with addToShortlist:
\* setActiveRoleIndex itself, called for one of the teamSize role slots.
SetActiveRoleIndex(roleIndex) ==
    /\ step = E_WorkflowStep.BUILDING
    /\ teamSize[1] = "number"
    /\ roleIndex < teamSize[2]
    /\ RenderWithRole(teamSize, shortlistedTeam, FALSE,
                      E_WorkflowStep.BUILDING, FALSE, <<>>, roleIndex, <<>>)
    /\ UNCHANGED <<localStorage, callVars, cacheVars, loaderVars>>

\* handleCandidateSelect of the TeamBuilder that adds with addToShortlist.
HandleCandidateSelectAdd(candidateId) ==
    LET isAlreadySelected ==
            \E i \in 1..Len(shortlistedTeam) :
               /\ shortlistedTeam[i] = candidateId
               /\ i - 1 # activeRoleIndex
        newTeam == addToShortlist(shortlistedTeam, candidateId)
        nextRoleIndex ==
            IF teamSize[1] = "number"
               /\ Len(shortlistedTeam) + 1 < teamSize[2]
            THEN Len(shortlistedTeam) + 1 ELSE -1
    IN  /\ step = E_WorkflowStep.BUILDING
        /\ IF activeRoleIndex < 0 \/ isAlreadySelected
           THEN UNCHANGED teamVars
           ELSE /\ RenderWithRole(teamSize, newTeam,
                                  newTeam # shortlistedTeam,
                                  E_WorkflowStep.BUILDING, FALSE, <<>>,
                                  nextRoleIndex, <<>>)
                /\ UNCHANGED localStorage
        /\ UNCHANGED <<callVars, cacheVars, loaderVars>>

\* The idle callback of saveToStorageAsync for one key.
RunIdleCallback(key) ==
    /\ key \in DOMAIN pendingSaves
    /\ localStorage' = [k \in DOMAIN localStorage \cup {key} |->
                           IF k = key THEN pendingSaves[key]
                           ELSE localStorage[k]]
    /\ pendingSaves' = [k \in DOMAIN pendingSaves \ {key} |->
                           pendingSaves[k]]
    /\ UNCHANGED <<teamSize, shortlistedTeam, step, inputValue, isOpen,
                   activeRoleIndex, callVars, cacheVars, loaderVars>>

\* The page is loaded again: the state is built anew, the mount effect
\* loads the two items, the pending idle callbacks are gone and the save
\* effects of the mount queue theirs.
Reload ==
    LET savedTeam == IF STORAGE_KEYS.SHORTLISTED_TEAM \in DOMAIN localStorage
                     THEN localStorage[STORAGE_KEYS.SHORTLISTED_TEAM]
                     ELSE <<>>
        savedTeamSize == IF STORAGE_KEYS.TEAM_SIZE \in DOMAIN localStorage
                         THEN localStorage[STORAGE_KEYS.TEAM_SIZE]
                         ELSE Num(0)
        size == IF GreaterThanZero(savedTeamSize) THEN savedTeamSize
                ELSE Num(0)
    IN  /\ teamSize' = size
        /\ shortlistedTeam' = savedTeam
        /\ step' = IF GreaterThanZero(size) THEN E_WorkflowStep.BUILDING
                   ELSE E_WorkflowStep.EMPTY
        /\ pendingSaves' =
              [key \in {STORAGE_KEYS.SHORTLISTED_TEAM,
                        STORAGE_KEYS.TEAM_SIZE} |->
                  IF key = STORAGE_KEYS.TEAM_SIZE
                  THEN JSONRoundTrip(size) ELSE savedTeam]
        /\ inputValue' = <<>>
        /\ isOpen' = FALSE
        /\ activeRoleIndex' = IF GreaterThanZero(size)
                              THEN FirstEmptyRoleIndex(size, savedTeam)
                              ELSE -1
        /\ UNCHANGED <<localStorage, callVars, cacheVars, loaderVars>>

\* The first visit, after the mount: nothing is stored, the save effects of
\* the mount have queued their idle callbacks.
InitTeam ==
    /\ candidates = <<>>
    /\ skillKeywords = <<>>
    /\ experienceKeywords = <<>>
    /\ educationKeywords = <<>>
    /\ result = <<>>
    /\ pc = "mounted"
    /\ CacheUnused
    /\ LoaderUnused
    /\ teamSize = Num(0)
    /\ shortlistedTeam = <<>>
    /\ step = E_WorkflowStep.EMPTY
    /\ localStorage = EmptyMap
    /\ pendingSaves = [key \in {STORAGE_KEYS.SHORTLISTED_TEAM,
                                STORAGE_KEYS.TEAM_SIZE} |->
                          IF key = STORAGE_KEYS.TEAM_SIZE THEN Num(0)
                          ELSE <<>>]
    /\ inputValue = <<>>
    /\ isOpen = FALSE
    /\ activeRoleIndex = -1

NextTeam ==
    \/ HandleStartBuilding
    \/ HandleBackFromTeamSize
    \/ \E value \in TeamSizeInputs : TeamSizeSetupHandleInputChange(value)
    \/ TeamSizeSetupHandleSubmit
    \/ HandleChangeTeamSize
    \/ \E value \in TeamSizeInputs : TeamSizeModalHandleInputChange(value)
    \/ TeamSizeModalHandleSubmit
    \/ TeamSizeModalHandleCancel
    \/ \E candidateId \in TeamCandidateIds :
          HandleCandidateSelectFromModal(candidateId)
    \/ \E roleIndex \in RoleIndices : HandleRoleSelect(roleIndex)
    \/ \E candidateId \in TeamCandidateIds :
          HandleCandidateSelect(candidateId)
    \/ HandleReviewTeam
    \/ HandleBackToBuilding
    \/ \E key \in {STORAGE_KEYS.SHORTLISTED_TEAM, STORAGE_KEYS.TEAM_SIZE} :
          RunIdleCallback(key)
    \/ Reload

SpecTeam == InitTeam /\ [][NextTeam]_vars

\* ShortlistPage with the TeamBuilder that adds with addToShortlist
\* (src/unnamed/part_004, lines 1-198): its Change Size and Review Team
\* buttons do nothing.
NextTeamAdd ==
    \/ HandleStartBuilding
    \/ HandleBackFromTeamSize
    \/ \E value \in TeamSizeInputs : TeamSizeSetupHandleInputChange(value)
    \/ TeamSizeSetupHandleSubmit
    \/ \E candidateId \in TeamCandidateIds :
          HandleCandidateSelectFromModal(candidateId)
    \/ \E roleIndex \in RoleIndices : SetActiveRoleIndex(roleIndex)
    \/ \E candidateId \in TeamCandidateIds :
          HandleCandidateSelectAdd(candidateId)
    \/ \E key \in {STORAGE_KEYS.SHORTLISTED_TEAM, STORAGE_KEYS.TEAM_SIZE} :
          RunIdleCallback(key)
    \/ Reload

SpecTeamAdd == InitTeam /\ [][NextTeamAdd]_vars

(***************************************************************************)
(* Progressive loading: useProgressiveLoader                               *)
(* (src/src/hooks/useProgressiveLoading.ts), called by                     *)
(* CandidateSelectionArea with the scored candidates as fullData.  A state *)
(* is a committed render: what the hook returns in it is loadedData and    *)
(* isLoading.  The effects of a render run after it is committed and       *)
(* before anything else is rendered; the renders their set calls cause     *)
(* are part of the same step.                                              *)
(***************************************************************************)
\* The candidates of fullData.
LoaderItems == {"c1", "c2", "c3"}

\* The values of fullData: lists of different candidates.
LoaderLists ==
    UNION {{list \in [1..n -> LoaderItems] :
               \A i, j \in 1..n : i # j => list[i] # list[j]} :
           n \in 0..MaxListLen}

\* array.slice(start, end) for 0 <= start <= end
SliceFrom(array, start, end) ==
    SubSeq(array, start + 1, IF end > Len(array) THEN Len(array) ELSE end)

\* isComplete
IsComplete(index, data) == index >= Len(data) /\ Len(data) > 0

\* isLoading of the current render.
IsLoading == ~IsComplete(currentIndex, fullData)

\* The second effect, after the cleanup of its last run has cleared the
\* timeout: the timeout it sets, if any.
BatchEffect(index, data) ==
    IF index >= Len(data) THEN <<>>
    ELSE <<[currentIndex |-> index, fullData |-> data]>>

\* The component is rendered with another fullData array.  The hook returns
\* the loadedData and currentIndex it has; its effects have yet to run and
\* the timeout of the earlier render is still set.
SetFullData(data) ==
    /\ ~pendingEffects
    /\ replacements < MaxReplacements
    /\ fullData' = data
    /\ pendingEffects' = TRUE
    /\ replacements' = replacements + 1
    /\ UNCHANGED <<batchSize, loadedData, currentIndex, timer>>
    /\ UNCHANGED <<callVars, cacheVars, teamVars>>

\* The effects of a render with a new fullData: the first resets loadedData
\* and currentIndex, the second clears the timeout and sets one if
\* currentIndex < fullData.length; in the render that follows, the second
\* effect runs again if currentIndex has changed.
FlushEffects ==
    /\ pendingEffects
    /\ loadedData' = <<>>
    /\ currentIndex' = 0
    /\ timer' = BatchEffect(0, fullData)
    /\ pendingEffects' = FALSE
    /\ UNCHANGED <<fullData, batchSize, replacements>>
    /\ UNCHANGED <<callVars, cacheVars, teamVars>>

\* The setTimeout callback, and the effect of the render it causes.
TimerFires ==
    /\ ~pendingEffects
    /\ timer # <<>>
    /\ LET nextIndex == timer[1].currentIndex + batchSize
           batch == SliceFrom(timer[1].fullData, timer[1].currentIndex,
                              nextIndex)
       IN  /\ loadedData' = loadedData \o batch
           /\ currentIndex' = nextIndex
           /\ timer' = BatchEffect(nextIndex, fullData)
    /\ UNCHANGED <<fullData, batchSize, pendingEffects, replacements>>
    /\ UNCHANGED <<callVars, cacheVars, teamVars>>

\* The first render, with its effects yet to run.
InitLoader ==
    /\ candidates = <<>>
    /\ skillKeywords = <<>>
    /\ experienceKeywords = <<>>
    /\ educationKeywords = <<>>
    /\ result = <<>>
    /\ pc = "mounted"
    /\ cache = EmptyMap
    /\ now = 0
    /\ indicesToFill = <<>>
    /\ TeamUnused
    /\ fullData \in LoaderLists
    /\ batchSize \in 1..MaxBatchSize
    /\ loadedData = <<>>
    /\ currentIndex = 0
    /\ timer = <<>>
    /\ pendingEffects = TRUE
    /\ replacements = 0

NextLoader ==
    \/ \E data \in LoaderLists : SetFullData(data)
    \/ FlushEffects
    \/ TimerFires

SpecLoader == InitLoader /\ [][NextLoader]_vars

\* The effects of a committed render run, and a timeout that stays set
\* fires.
FairSpecLoader ==
    SpecLoader /\ WF_vars(FlushEffects) /\ WF_vars(TimerFires)

(***************************************************************************)
(* Vocabulary of the properties.                                           *)
(***************************************************************************)
Done == pc = "done"

SkillsActive == Len(skillKeywords) > 0
ExperienceActive == Len(experienceKeywords) > 0
EducationActive == Len(educationKeywords) > 0

\* The input candidate a result record was made from.
InputOf(r) ==
    CHOOSE c \in {candidates[i] : i \in 1..Len(candidates)} : c.id = r.id

\* Unrounded match percentages of an input candidate under the current
\* keyword lists.
SkillPct(c) == SkillMatchPercentage(c, skillKeywords)
ExperiencePct(c) == ExperienceMatchPercentage(c, experienceKeywords)
EducationPct(c) == EducationMatchPercentage(c, educationKeywords)

\* The unrounded quantities of an input candidate: its three match
\* percentages and the education base weight its degrees select.
Unrounded(c) ==
    [skill |-> SkillPct(c),
     experience |-> ExperiencePct(c),
     education |-> EducationPct(c),
     educationWeight |-> BaseEducationWeight(c)]

\* Sum of the base weights of the active categories only.
ActiveWeightSum(u) ==
    RAdd(RAdd(IF SkillsActive THEN <<1, 2>> ELSE Zero,
              IF ExperienceActive THEN <<3, 10>> ELSE Zero),
         IF EducationActive THEN u.educationWeight ELSE Zero)

\* Sum over the active categories of matchPercentage x (weight / total).
RedistributedScore(u) ==
    LET total == ActiveWeightSum(u) IN
    RAdd(RAdd(IF SkillsActive
              THEN RMul(u.skill, RDiv(<<1, 2>>, total)) ELSE Zero,
              IF ExperienceActive
              THEN RMul(u.experience, RDiv(<<3, 10>>, total)) ELSE Zero),
         IF EducationActive
         THEN RMul(u.education, RDiv(u.educationWeight, total))
         ELSE Zero)

\* The binary64 value of the unrounded score lies just below a tie k + 1/2
\* of its tenfold.
ShortOfHalf(u) ==
    <<SkillsActive, u.skill, ExperienceActive, u.experience,
      EducationActive, u.education,
      IF EducationActive THEN u.educationWeight ELSE Zero>>
        \in Binary64ShortOfHalf

\* x rounded to one decimal place, halves up.
HalfUpTenth(x) == <<(20 * x[1] + x[2]) \div (2 * x[2]), 10>>

SameNumber(x, y) == x[1] * y[2] = y[1] * x[2]

(***************************************************************************)
(* C1: calculateCandidateScores performs no sorting: for every non-empty   *)
(* candidate list and every combination of keyword lists, result[i] is the *)
(* scored copy of candidates[i] for every index i.                         *)
(***************************************************************************)
C1_InputOrderPreserved ==
    Done /\ Len(candidates) > 0 =>
        /\ Len(result) = Len(candidates)
        /\ \A i \in 1..Len(candidates) :
              result[i] = ScoreCandidate(candidates[i], skillKeywords,
                                         experienceKeywords,
                                         educationKeywords)

(***************************************************************************)
(* C2: weight redistribution: when at least one category is active, a      *)
(* candidate's unrounded score is the sum over the active categories of    *)
(* matchPercentage x (baseWeight / totalActiveWeight), totalActiveWeight   *)
(* being the sum of the base weights of the active categories only; the    *)
(* stored score is that value rounded.  With skills and experience active, *)
(* 100% skill match and 0% experience match give 62.5.                     *)
(***************************************************************************)
C2_WeightRedistribution ==
    Done /\ (SkillsActive \/ ExperienceActive \/ EducationActive) =>
        \A i \in 1..Len(result) :
            LET r == result[i]
                u == Unrounded(InputOf(r))
            IN  /\ r.score = RoundToTenth(RedistributedScore(u), ShortOfHalf(u))
                /\ (SkillsActive /\ ExperienceActive /\ ~EducationActive
                    /\ u.skill = <<100, 1>> /\ u.experience = Zero)
                      => r.score = <<125, 2>>

C2_Witness ==
    /\ Done /\ SkillsActive /\ ExperienceActive /\ ~EducationActive
    /\ \E i \in 1..Len(result) :
          /\ SkillPct(InputOf(result[i])) = <<100, 1>>
          /\ ExperiencePct(InputOf(result[i])) = Zero
          /\ result[i].score = <<125, 2>>

(***************************************************************************)
(* C3: education weight selection: whenever the education keyword list is  *)
(* non-empty, each scored candidate's educationWeight is 0.20 if any of    *)
(* its degrees has isTop25 true (whatever its isTop50 flags), else 0.15 if *)
(* any degree has isTop50 true, else 0.10, and that value is the education *)
(* base weight used in the score.                                          *)
(***************************************************************************)
C3_EducationWeightSelection ==
    Done /\ EducationActive =>
        \A i \in 1..Len(result) :
            LET r == result[i]
                c == InputOf(r)
                u == Unrounded(c)
                degrees == {c.education.degrees[j] :
                               j \in 1..Len(c.education.degrees)}
                w == r.educationWeight
                total == RAdd(RAdd(IF SkillsActive THEN <<1, 2>> ELSE Zero,
                                   IF ExperienceActive THEN <<3, 10>>
                                   ELSE Zero), w)
                unrounded ==
                    RAdd(RAdd(IF SkillsActive
                              THEN RMul(u.skill, RDiv(<<1, 2>>, total))
                              ELSE Zero,
                              IF ExperienceActive
                              THEN RMul(u.experience,
                                        RDiv(<<3, 10>>, total))
                              ELSE Zero),
                         RMul(u.education, RDiv(w, total)))
            IN  /\ (\E d \in degrees : d.isTop25) => w = <<1, 5>>
                /\ (~(\E d \in degrees : d.isTop25)
                    /\ (\E d \in degrees : d.isTop50)) => w = <<3, 20>>
                /\ (~(\E d \in degrees : d.isTop25)
                    /\ ~(\E d \in degrees : d.isTop50)) => w = <<1, 10>>
                /\ r.score = RoundToTenth(unrounded, ShortOfHalf(u))

\* A candidate with a Top25 degree and another, Top50, degree got 0.20, one
\* with only a Top50 degree got 0.15, in a call where the weight changes the
\* score.
C3_Witness ==
    /\ Done /\ EducationActive /\ SkillsActive
    /\ \E i, j \in 1..Len(result) :
          /\ \E k \in 1..Len(result[i].education.degrees) :
                /\ result[i].education.degrees[k].isTop25
                /\ ~result[i].education.degrees[k].isTop50
          /\ \E k \in 1..Len(result[i].education.degrees) :
                result[i].education.degrees[k].isTop50
          /\ result[i].educationWeight = <<1, 5>>
          /\ result[j].educationWeight = <<3, 20>>
          /\ SkillPct(InputOf(result[i])) = SkillPct(InputOf(result[j]))
          /\ ExperiencePct(InputOf(result[i]))
                = ExperiencePct(InputOf(result[j]))
          /\ EducationPct(InputOf(result[i]))
                = EducationPct(InputOf(result[j]))
          /\ result[i].score # result[j].score

(***************************************************************************)
(* C4: the match percentage of an active category is (number of entries of *)
(* its keyword list, counted with repetitions, for which at least one      *)
(* relevant field value of the candidate contains the keyword as a         *)
(* case-insensitive substring) / (length of the keyword list) x 100; the   *)
(* relevant fields are each skill string, each work experience's role      *)
(* title only (not the employer), and each degree's title or subject.  The *)
(* stored percentage is that value rounded to one decimal.                 *)
(***************************************************************************)
ContainsIgnoringCase(field, keyword) ==
    \E start \in 1..(Len(field) - Len(keyword) + 1) :
        \A j \in 1..Len(keyword) :
            ToLowerChar(field[start + j - 1]) = ToLowerChar(keyword[j])

KeywordsFound(keywords, fields) ==
    Cardinality({k \in 1..Len(keywords) :
                    \E f \in fields : ContainsIgnoringCase(f, keywords[k])})

SkillFields(c) == {c.skills[i] : i \in 1..Len(c.skills)}

RoleFields(c) ==
    {c.work_experiences[i].roleName : i \in 1..Len(c.work_experiences)}

DegreeFields(c) ==
    {c.education.degrees[i].degree : i \in 1..Len(c.education.degrees)}
        \cup
    {c.education.degrees[i].subject : i \in 1..Len(c.education.degrees)}

C4_MatchPercentage ==
    Done =>
        \A i \in 1..Len(result) :
            LET r == result[i]
                c == InputOf(r)
            IN  /\ SkillsActive =>
                      SameNumber(r.skillMatchPercentage,
                          HalfUpTenth(<<100 * KeywordsFound(skillKeywords,
                                                            SkillFields(c)),
                                        Len(skillKeywords)>>))
                /\ ExperienceActive =>
                      SameNumber(r.experienceMatchPercentage,
                          HalfUpTenth(<<100 * KeywordsFound(experienceKeywords,
                                                            RoleFields(c)),
                                        Len(experienceKeywords)>>))
                /\ EducationActive =>
                      SameNumber(r.educationMatchPercentage,
                          HalfUpTenth(<<100 * KeywordsFound(educationKeywords,
                                                            DegreeFields(c)),
                                        Len(educationKeywords)>>))

\* The employer matches a keyword and the role title another one in a
\* different case: 50%; one of three education keywords, two of them the
\* same, is part of a degree title: 33.3%.
C4_Witness ==
    /\ Done
    /\ experienceKeywords = << <<"d", "e", "v">>, <<"O", "P", "S">> >>
    /\ educationKeywords = << <<"s", "c">>, <<"a", "r", "t">>,
                              <<"a", "r", "t">> >>
    /\ \E i \in 1..Len(result) :
          /\ result[i].work_experiences
                = << Experience(<<"D", "e", "v">>, <<"O", "p", "s">>) >>
          /\ result[i].experienceMatchPercentage = <<50, 1>>
          /\ result[i].educationMatchPercentage = <<333, 10>>

(***************************************************************************)
(* C5: if all three keyword lists are empty, every returned candidate has  *)
(* score 0, educationWeight 0 and all three match percentages 0, whatever  *)
(* the candidate's skills, experience, degrees and prestige flags.         *)
(***************************************************************************)
C5_NoKeywordsAllZero ==
    Done /\ ~SkillsActive /\ ~ExperienceActive /\ ~EducationActive =>
        \A i \in 1..Len(result) :
            /\ result[i].score = Zero
            /\ result[i].educationWeight = Zero
            /\ result[i].skillMatchPercentage = Zero
            /\ result[i].experienceMatchPercentage = Zero
            /\ result[i].educationMatchPercentage = Zero

C5_Witness ==
    /\ Done /\ ~SkillsActive /\ ~ExperienceActive /\ ~EducationActive
    /\ \E i \in 1..Len(result) :
          /\ HasTop25(result[i])
          /\ Len(result[i].skills) > 0
          /\ result[i].score = Zero

(***************************************************************************)
(* C6: if exactly one category is active (only skill keywords, or only     *)
(* experience keywords, supplied), every candidate's score equals that     *)
(* category's match percentage rounded to one decimal, and the match       *)
(* percentages of the two inactive categories are 0.                       *)
(***************************************************************************)
C6_SingleActiveCategory ==
    Done =>
        \A i \in 1..Len(result) :
            LET r == result[i] IN
            /\ (SkillsActive /\ ~ExperienceActive /\ ~EducationActive) =>
                  /\ r.score = r.skillMatchPercentage
                  /\ SameNumber(r.score, HalfUpTenth(SkillPct(InputOf(r))))
                  /\ r.experienceMatchPercentage = Zero
                  /\ r.educationMatchPercentage = Zero
            /\ (~SkillsActive /\ ExperienceActive /\ ~EducationActive) =>
                  /\ r.score = r.experienceMatchPercentage
                  /\ SameNumber(r.score,
                                HalfUpTenth(ExperiencePct(InputOf(r))))
                  /\ r.skillMatchPercentage = Zero
                  /\ r.educationMatchPercentage = Zero

C6_Witness ==
    /\ Done /\ SkillsActive /\ ~ExperienceActive /\ ~EducationActive
    /\ \E i \in 1..Len(result) : result[i].score = <<50, 1>>

(***************************************************************************)
(* C7: normalisation: the redistributed weights of the active categories   *)
(* sum to 1 for every candidate, so a candidate that matches 100% of the   *)
(* keywords in every active category scores exactly 100.0 whichever        *)
(* education weight (0.20, 0.15 or 0.10) applies to it, and a candidate    *)
(* matching 0% in every active category scores 0.0.                        *)
(***************************************************************************)
C7_Normalisation ==
    Done /\ (SkillsActive \/ ExperienceActive \/ EducationActive) =>
        \A i \in 1..Len(result) :
            LET r == result[i]
                u == Unrounded(InputOf(r))
                total == ActiveWeightSum(u)
                all100 == /\ SkillsActive => u.skill = <<100, 1>>
                          /\ ExperienceActive => u.experience = <<100, 1>>
                          /\ EducationActive => u.education = <<100, 1>>
                all0 == /\ SkillsActive => u.skill = Zero
                        /\ ExperienceActive => u.experience = Zero
                        /\ EducationActive => u.education = Zero
            IN  /\ RAdd(RAdd(IF SkillsActive THEN RDiv(<<1, 2>>, total)
                             ELSE Zero,
                             IF ExperienceActive THEN RDiv(<<3, 10>>, total)
                             ELSE Zero),
                        IF EducationActive
                        THEN RDiv(u.educationWeight, total) ELSE Zero)
                      = <<1, 1>>
                /\ all100 => r.score = <<100, 1>>
                /\ all0 => r.score = Zero

\* All three categories active: a Top25 and a Top50 candidate both at 100.
C7_Witness ==
    /\ Done /\ SkillsActive /\ ExperienceActive /\ EducationActive
    /\ \E i, j \in 1..Len(result) :
          /\ result[i].educationWeight = <<1, 5>>
          /\ result[j].educationWeight = <<3, 20>>
          /\ result[i].score = <<100, 1>>
          /\ result[j].score = <<100, 1>>

InRangeOneDecimal(x) ==
    /\ RLeq(Zero, x)
    /\ RLeq(x, <<100, 1>>)
    /\ (10 * x[1]) % x[2] = 0

C9_RangesAndGranularity ==
    Done =>
        \A i \in 1..Len(result) :
            /\ InRangeOneDecimal(result[i].score)
            /\ InRangeOneDecimal(result[i].skillMatchPercentage)
            /\ InRangeOneDecimal(result[i].experienceMatchPercentage)
            /\ InRangeOneDecimal(result[i].educationMatchPercentage)
            /\ result[i].educationWeight
                  \in {Zero, <<1, 10>>, <<3, 20>>, <<1, 5>>}

C9_Witness ==
    /\ Done /\ EducationActive
    /\ \E i \in 1..Len(result) :
          /\ result[i].score[2] = 10
          /\ result[i].educationMatchPercentage[2] = 10
          /\ result[i].educationWeight = <<3, 20>>

(***************************************************************************)
(* C10: when the sort step is applied to scored candidates, the result is  *)
(* in descending score order; among candidates whose scores differ by less *)
(* than 0.1, a candidate with a Top25 degree precedes one without, and     *)
(* among candidates without a Top25 degree one with a Top50 degree         *)
(* precedes one with neither; candidates that are equal on score and on    *)
(* prestige tier keep their relative input order.                          *)
(***************************************************************************)
PrestigeTier(r) == IF HasTop25(r) THEN 2 ELSE IF HasTop50(r) THEN 1 ELSE 0

InputPosition(r) ==
    CHOOSE i \in 1..Len(candidates) : candidates[i].id = r.id

C10_SortedByScoreThenPrestige ==
    Done =>
        \A i, j \in 1..Len(result) :
            i < j =>
                LET a == result[i]
                    b == result[j]
                IN  /\ RLeq(b.score, a.score)
                    /\ RLess(RAbs(RSub(a.score, b.score)), <<1, 10>>)
                          => PrestigeTier(a) >= PrestigeTier(b)
                    /\ (a.score = b.score /\ PrestigeTier(a) = PrestigeTier(b))
                          => InputPosition(a) < InputPosition(b)

(***************************************************************************)
(* C11: reproducibility: the score fields of a returned record are those   *)
(* of its candidate scored alone with the three keyword lists (a second    *)
(* call on the same inputs gives them again, whatever the other candidates *)
(* of the call), and they stay the same when two neighbouring keywords of  *)
(* one category change places.  Every permutation of a list is a product   *)
(* of such exchanges (an exchange of two equal keywords leaves the list as  *)
(* it is), and every exchanged list is itself an input of the model.       *)
(***************************************************************************)
ScoreFields(r) ==
    <<r.score, r.skillMatchPercentage, r.experienceMatchPercentage,
      r.educationMatchPercentage, r.educationWeight>>

Exchanged(list, a, b) ==
    [k \in 1..Len(list) |->
        IF k = a THEN list[b] ELSE IF k = b THEN list[a] ELSE list[k]]

C11_Reproducibility ==
    Done =>
        \A i \in 1..Len(result) :
            LET c == InputOf(result[i])
                fields == ScoreFields(result[i])
            IN  /\ ScoreFields(ScoreCandidate(c, skillKeywords,
                                              experienceKeywords,
                                              educationKeywords)) = fields
                /\ \A a \in 1..(Len(skillKeywords) - 1) :
                      skillKeywords[a] # skillKeywords[a + 1] =>
                        ScoreFields(ScoreCandidate(c,
                            Exchanged(skillKeywords, a, a + 1),
                            experienceKeywords, educationKeywords)) = fields
                /\ \A a \in 1..(Len(experienceKeywords) - 1) :
                      experienceKeywords[a] # experienceKeywords[a + 1] =>
                        ScoreFields(ScoreCandidate(c, skillKeywords,
                            Exchanged(experienceKeywords, a, a + 1),
                            educationKeywords)) = fields
                /\ \A a \in 1..(Len(educationKeywords) - 1) :
                      educationKeywords[a] # educationKeywords[a + 1] =>
                        ScoreFields(ScoreCandidate(c, skillKeywords,
                            experienceKeywords,
                            Exchanged(educationKeywords, a, a + 1))) = fields

\* Two different skill keywords of which a candidate matches the second
\* only, in a call with a second candidate.
C11_Witness ==
    /\ Done
    /\ Len(result) = 2
    /\ Len(skillKeywords) = 2
    /\ \E i \in 1..Len(result) :
          /\ ~SkillMatches(InputOf(result[i]), skillKeywords[1])
          /\ SkillMatches(InputOf(result[i]), skillKeywords[2])
          /\ result[i].skillMatchPercentage = <<50, 1>>

(***************************************************************************)
(* C12: a scoring call has no side effect on its arguments: the candidate  *)
(* list, its records and the three keyword lists are the same after the    *)
(* call as before, and no returned record is one of the input records.     *)
(***************************************************************************)
C12_NoSideEffects ==
    [][/\ candidates' = candidates
       /\ skillKeywords' = skillKeywords
       /\ experienceKeywords' = experienceKeywords
       /\ educationKeywords' = educationKeywords
       /\ \A i \in 1..Len(result') : \A j \in 1..Len(candidates) :
             result'[i] # candidates[j]]_vars

\* A call whose result is in another order than its input.
C12_Witness ==
    /\ Done
    /\ Len(candidates) = 2
    /\ result[1].id = candidates[2].id
    /\ result[1].score # result[2].score

(***************************************************************************)
(* C14: the education weight is applied only when education is active:     *)
(* with an empty education keyword list, a candidate and any candidate     *)
(* that differs from it only in the isTop25/isTop50 flags of its degrees   *)
(* get the same score and match percentages, and educationWeight 0.        *)
(***************************************************************************)
WithFlags(c, flags) ==
    [c EXCEPT !.education.degrees =
        [k \in 1..Len(c.education.degrees) |->
            [c.education.degrees[k] EXCEPT !.isTop25 = flags[k][1],
                                           !.isTop50 = flags[k][2]]]]

C14_EducationWeightOnlyWhenActive ==
    Done /\ ~EducationActive =>
        \A i \in 1..Len(result) :
            LET c == InputOf(result[i]) IN
            /\ result[i].educationWeight = Zero
            /\ \A flags \in [1..Len(c.education.degrees) ->
                                BOOLEAN \X BOOLEAN] :
                  ScoreFields(ScoreCandidate(WithFlags(c, flags),
                                             skillKeywords,
                                             experienceKeywords,
                                             educationKeywords))
                      = ScoreFields(result[i])

\* Skills and experience active, education not: a Top25 candidate and one
\* without prestige with the same score above 0.
C14_Witness ==
    /\ Done /\ ~EducationActive /\ SkillsActive /\ ExperienceActive
    /\ \E i, j \in 1..Len(result) :
          /\ HasTop25(result[i])
          /\ ~HasTop25(result[j]) /\ ~HasTop50(result[j])
          /\ result[i].score = result[j].score
          /\ result[i].score # Zero
          /\ result[i].educationWeight = Zero

(***************************************************************************)
(* C15: the output contains exactly the input candidates: it has the       *)
(* length of the input (empty for an empty input, whatever the filters),   *)
(* every input candidate appears exactly once with all its original fields *)
(* unchanged, and every output record carries score, skillMatchPercentage, *)
(* experienceMatchPercentage, educationMatchPercentage and                 *)
(* educationWeight.                                                        *)
(***************************************************************************)
C15_ExactlyTheInputCandidates ==
    Done =>
        /\ Len(result) = Len(candidates)
        /\ Len(candidates) = 0 => result = <<>>
        /\ \A i \in 1..Len(candidates) :
              /\ Cardinality({j \in 1..Len(result) :
                                 result[j].id = candidates[i].id}) = 1
              /\ \A j \in 1..Len(result) :
                    result[j].id = candidates[i].id =>
                        \A field \in DOMAIN candidates[i] :
                            /\ field \in DOMAIN result[j]
                            /\ result[j][field] = candidates[i][field]
        /\ \A j \in 1..Len(result) :
              {"score", "skillMatchPercentage", "experienceMatchPercentage",
               "educationMatchPercentage", "educationWeight"}
                  \subseteq DOMAIN result[j]

C15_Witness ==
    /\ Done
    /\ Len(candidates) = 2
    /\ Len(result) = 2
    /\ SkillsActive /\ EducationActive
    /\ result[1].id # result[2].id

(***************************************************************************)
(* C13: sparse data never raises: for a candidate without skills, without  *)
(* work_experiences, without education or without education.degrees the   *)
(* call completes and counts the absent collection as empty (0 matched     *)
(* keywords in that category, education weight 0.10), and a degree without *)
(* isTop25 counts as isTop25 = false.                                      *)
(***************************************************************************)
Absent(c, property) == property \notin DOMAIN c

NoDegrees(c) == Absent(c, "education") \/ Absent(c.education, "degrees")

C13_SparseDataNeverRaises ==
    pc # "ready" =>
        /\ pc = "done"
        /\ Len(result) = Len(candidates)
        /\ \A i \in 1..Len(result) :
              LET r == result[i]
                  c == InputOf(r)
              IN  /\ Absent(c, "skills") => r.skillMatchPercentage = Zero
                  /\ Absent(c, "work_experiences") =>
                        r.experienceMatchPercentage = Zero
                  /\ NoDegrees(c) =>
                        /\ r.educationMatchPercentage = Zero
                        /\ EducationActive => r.educationWeight = <<1, 10>>
                  /\ (/\ ~NoDegrees(c)
                      /\ EducationActive
                      /\ \A k \in 1..Len(c.education.degrees) :
                            Absent(c.education.degrees[k], "isTop25"))
                        => r.educationWeight \in {<<3, 20>>, <<1, 10>>}

\* The filter set of the last getScoredCandidates call.
FiltersOfCall == Filters(skillKeywords, experienceKeywords, educationKeywords)

\* C16: after any sequence of getScoredCandidates calls with varying
\* candidate lists and filter sets, every scored candidate returned for the
\* filters F of the call, cached or freshly computed, is a candidate of the
\* call and carries the score fields that scoring this candidate alone with
\* F produces; a score computed under another filter set is never returned.
C16_FilterSetIsPartOfTheKey ==
    pc = "getScoredCandidates" =>
        \A i \in 1..Len(result) :
            \E j \in 1..Len(candidates) :
                /\ candidates[j].id = result[i].id
                /\ ScoreFields(result[i])
                     = ScoreFields(Scored(<<candidates[j]>>, skillKeywords,
                                          experienceKeywords,
                                          educationKeywords)[1])

\* A call served entirely from the cache while the cache also holds, for
\* the first returned candidate, an entry of the other filter set with
\* different score fields.
C16_Witness ==
    /\ pc = "getScoredCandidates"
    /\ Len(result) > 0
    /\ indicesToFill = <<>>
    /\ \E filters \in FilterPool :
          LET key == generateCacheKey(result[1].id, filters)
          IN  /\ filters # FiltersOfCall
              /\ key \in DOMAIN cache
              /\ ScoreFields(cache[key].scoredCandidate)
                   # ScoreFields(result[1])

\* C17: entries expire after 5 minutes.  In every getScoredCandidates call,
\* a position is served from the cache only if its entry was stored less
\* than 5 minutes before the call; a candidate whose entry is 5 minutes old
\* or older is rescored and its entry is replaced by one with the timestamp
\* of the call.  Every run of the periodic cleanup leaves no entry aged 5
\* minutes or more and keeps the younger ones.
C17_EntriesExpireAfterFiveMinutes ==
    [][/\ pc' = "getScoredCandidates" =>
            \A i \in 1..Len(candidates') :
                LET key == generateCacheKey(candidates'[i].id,
                               Filters(skillKeywords', experienceKeywords',
                                       educationKeywords'))
                    rescored == \E k \in 1..Len(indicesToFill') :
                                    indicesToFill'[k] = i
                IN  /\ ~rescored =>
                        /\ key \in DOMAIN cache
                        /\ now - cache[key].timestamp < 5 * 60 * 1000
                    /\ (/\ key \in DOMAIN cache
                        /\ now - cache[key].timestamp >= 5 * 60 * 1000) =>
                        /\ rescored
                        /\ key \in DOMAIN cache'
                        /\ cache'[key].timestamp = now
       /\ pc' = "cleanupInterval" =>
            /\ \A key \in DOMAIN cache' :
                   now' - cache'[key].timestamp < 5 * 60 * 1000
            /\ \A key \in DOMAIN cache :
                   now - cache[key].timestamp < 5 * 60 * 1000
                       => key \in DOMAIN cache' /\ cache'[key] = cache[key]
      ]_vars

\* A call made 5 minutes after the start that rescored a candidate, while
\* an entry stored at the start is still in the cache (no cleanup has
\* removed the entries of that age).
C17_Witness ==
    /\ pc = "getScoredCandidates"
    /\ now = 5 * 60 * 1000
    /\ indicesToFill # <<>>
    /\ \E key \in DOMAIN cache : cache[key].timestamp = now
    /\ \E key \in DOMAIN cache : cache[key].timestamp = 0

\* C19: getScoredCandidates preserves positions: the result has the length
\* of the input and result[i] is the scored record of candidates[i] (same
\* id) at every index i.
C19_PositionsPreserved ==
    pc = "getScoredCandidates" =>
        /\ Len(result) = Len(candidates)
        /\ \A i \in 1..Len(candidates) : result[i].id = candidates[i].id

\* C20: after any sequence of getCachedScores calls, every cache entry
\* stored under the key built from candidate id X and filters F holds the
\* scored record of candidate X (entry.score.id = X), and every record
\* returned at the position of a candidate is the record of that candidate.
C20_EntryHoldsItsOwnCandidate ==
    /\ \A filters \in StableFilterPool :
           \A X \in {"c1", "c3"} :
               LET cacheKey == generateStableCacheKey(X, filters)
               IN  cacheKey \in DOMAIN cache => cache[cacheKey].score.id = X
    /\ pc = "getCachedScores" =>
           \A i \in 1..Len(candidates) :
               i \notin {indicesToFill[k] : k \in 1..Len(indicesToFill)}
                   => result[i].id = candidates[i].id

\* C18: in every state reachable through TeamSizeSetup, TeamSizeModal,
\* clearShortlist and loading from storage, the team size held in the
\* application context is 0 or an integer from 1 to 15; no value outside
\* that range and no non-number is stored as the team size.
C18_TeamSizeZeroOrOneToFifteen ==
    /\ teamSize[1] = "number"
    /\ teamSize[2] = 0 \/ (1 <= teamSize[2] /\ teamSize[2] <= 15)

\* C21: every run of cleanupCache(maxSize, maxAge) leaves at most maxSize
\* entries in the score cache and no entry whose timestamp is more than
\* maxAge before now, and the entries it evicts for size (deleted although
\* not expired) are never newer than an entry it keeps.
C21_CleanupBoundsSizeAndAge ==
    [][\A arguments \in CleanupArguments :
          cleanupCache(arguments[1], arguments[2]) =>
              /\ Cardinality(DOMAIN cache') <= arguments[1]
              /\ \A key \in DOMAIN cache' :
                     now' - cache'[key].timestamp <= arguments[2]
              /\ \A a \in (DOMAIN cache \ DOMAIN cache')
                             \ ExpiredKeys(cache, arguments[2], now),
                    b \in DOMAIN cache' :
                     cache[a].timestamp <= cache[b].timestamp]_vars

FirstMembers(team, n) == SubSeq(team, 1, n)

\* C23: setTeamSize(size) replaces the shortlist by its first size members
\* when size is smaller than the shortlist length and leaves it unchanged
\* otherwise: in every state where TeamSizeModal is open, this is the
\* shortlist that setTeamSize(parseInt(value)) leaves for every value that
\* can be typed; and every handler that calls setTeamSize(size) leaves
\* teamSize = size.
C23_SetTeamSizeKeepsTheFirstMembers ==
    [][/\ isOpen =>
              \A value \in TeamSizeInputs :
                 LET size == ParseInt(value)
                 IN  TrimmedTeam(size, shortlistedTeam) =
                        IF size[1] = "number" /\ size[2] < Len(shortlistedTeam)
                        THEN FirstMembers(shortlistedTeam, size[2])
                        ELSE shortlistedTeam
       /\ \A value \in TeamSizeInputs :
              TeamSizeModalHandleInputChange(value)
                  => teamSize' = ParseInt(value)
       /\ (TeamSizeSetupHandleSubmit /\ step' = E_WorkflowStep.BUILDING)
              => teamSize' = ParseInt(inputValue)]_vars

\* The members of the team: the entries of shortlistedTeam that are
\* candidates.
IsMember(team, i) == i \in 1..Len(team) /\ team[i] # NoMember

C25_TeamNeverExceedsItsSize ==
    [][/\ teamSize'[1] = "number"
       /\ Len(shortlistedTeam') <= teamSize'[2]
       /\ \A candidateId \in TeamCandidateIds :
              (/\ HandleCandidateSelectAdd(candidateId)
               /\ IsReplacingRole(shortlistedTeam, activeRoleIndex)
               /\ \A i \in 1..Len(shortlistedTeam) :
                     shortlistedTeam[i] = candidateId
                         => i - 1 = activeRoleIndex)
                  => shortlistedTeam' =
                         replaceInShortlist(shortlistedTeam, candidateId,
                                            activeRoleIndex)]_vars

\* C27: in every state the progressive loader exposes, loadedData is a
\* prefix of the current fullData and its length is the smaller of
\* currentIndex and the length of fullData.
C27_LoadedDataIsAPrefixOfFullData ==
    /\ Len(loadedData) = (IF currentIndex < Len(fullData)
                          THEN currentIndex ELSE Len(fullData))
    /\ loadedData = SubSeq(fullData, 1, Len(loadedData))

\* C26: once fullData stops changing, the loader reaches a state where
\* loadedData equals fullData and isLoading is false, and stays in it.
C26_ProgressiveLoadingCompletes ==
    <>[](loadedData = fullData /\ ~IsLoading)

====
